---- MODULE Spec2Model ----
(******************************************************************************)
(* Model of the capture/persistence pipeline of Webflow_data_recorder.        *)
(*                                                                            *)
(*   src/database/vector_db.py   page_embeddings table, update_page_actions,  *)
(*                               store_in_pgvector                            *)
(*   src/browser/controller.py   inject_action_listeners and the script it    *)
(*                               injects, drain_action_queue,                 *)
(*                               process_new_actions, capture_all_tabs,       *)
(*                               check_alerts, capture_web_actions,           *)
(*                               start_browser, stop_browser, start_capturing,*)
(*                               stop_capturing_process                       *)
(*                                                                            *)
(* Specifications:                                                            *)
(*   Spec            update_page_actions, one call after another              *)
(*   SpecConcurrent  two update_page_actions calls interleaved                *)
(*   SpecCapture     the capture worker, user events, recording sessions      *)
(*   SpecDetect      the worker's change detector over changing pages         *)
(*   SpecBlank       the worker over tabs that keep their page                *)
(*   SpecPage        the injected script: install, events, drains             *)
(*   SpecMask        the payload buildAction builds for one event             *)
(*   SpecAlert       the worker over pages that open dialogs                  *)
(*   SpecLife        the threads: start and stop calls, the workers' loop     *)
(*   SpecLifeFair    SpecLife with every started worker kept running          *)
(*   SpecSnapshot    store_in_pgvector beside two update_page_actions calls   *)
(*   SpecTabs        window tracking and referrers over tabs that come and go *)
(*                                                                            *)
(* The page_actions JSONB column is modelled as a tagged value:               *)
(*   kind = "null"   SQL NULL                                                 *)
(*   kind = "list"   legacy flat list of actions (items)                      *)
(*   kind = "dict"   object mapping session key -> JSON value (map)           *)
(*   kind = "other"  any other JSON value (string, number, ...)               *)
(* A JSON value stored under a session key is a list (kind = "list") or       *)
(* something else (kind = "other").                                           *)
(******************************************************************************)
EXTENDS Integers, Sequences, FiniteSets, TLC

VARIABLES
    db,        \* page_embeddings: url -> row (exists = FALSE when no row)
    now,       \* value the next time.time() returns; it moves on with every write
    lastCall,  \* the most recent update_page_actions call and what it returned
    pre,       \* db as it was just before lastCall
    wpc,       \* concurrent writers: writer -> "select" | "write" | "done"
    wargs,     \* concurrent writers: writer -> arguments of its update_page_actions call
    fetched,   \* concurrent writers: writer -> row its SELECT returned
    lastSnap,  \* the most recent store_in_pgvector call made beside the writers
    current_session,   \* history_manager.current_session.id (None when there is none)
    tabUrl,            \* window handle -> URL the tab shows
    queue,             \* window handle -> window.__flowActionQueue of its page
    page_action_logs,  \* url -> accumulated actions (page_action_logs[url]["actions"])
    wk,                \* capture worker: phase of its poll cycle and loop positions
    events,            \* number of user events captured so far
    drained,           \* url -> every action drained for it, in poll order
    drainedIn,         \* url -> session -> actions drained while that session was current
    persistFailed,     \* some update_page_actions call of the worker has failed
    tabContent,        \* window handle -> page_source of the page the tab shows
    processed_urls,    \* capture_web_actions: url -> hash of the content last recorded
    lastTab,           \* the tab the worker processed last and what it did with it
    obs,               \* url -> contents the worker has seen under it so far
    verdicts,          \* url -> times it was found new or changed (counted up to 2)
    driverFailed,      \* a driver call has failed on a tab after its queue was drained
    faults,            \* number of driver and database calls of the worker that failed
    changes,           \* number of times a tab has come to show another page
    lastPersist,       \* the most recent process_new_actions call that had a batch
    failedAt,          \* url -> places in its accumulated list of the batch whose write failed last
    resubmitted,       \* a batch whose write had failed was handed to the merge again
    dialog,            \* the JavaScript dialog the browser shows (0 when it shows none)
    opened,            \* number of dialogs the pages have opened so far
    alertDb,           \* page_embeddings: alert url -> row
    lastAlert,         \* the most recent check_alerts call and what it did
    written,           \* dialog -> times a row was written for it (counted up to 2)
    steps,             \* calls the worker has made in the poll cycle it is in
    stop_capturing,    \* the flag that tells the capture workers to stop
    browser,           \* the driver: None, "open", or "closed" once its window is gone
    capture_thread,    \* the worker started last (0 when none was started)
    pc,                \* worker -> where it is in capture_web_actions
    exit,              \* worker -> why it left capture_web_actions and what it emitted
    came,              \* worker at the head of the loop -> what brought it there
    caller,            \* what the thread of the application is in the middle of
    lastStop,          \* how the most recent stop_capturing_process call ended
    foreign,           \* the application drove the browser while a worker was alive
    tabs,              \* window handle -> the tab: unopened, open on a page, closed
    all_windows,       \* the module's all_windows: handles the last enumeration saw
    locals,            \* the worker's last_url and processed_urls
    tpc,               \* where the capture run over the tabs is
    poll,              \* what the most recent capture_all_tabs call saw and reported
    reportedNew,       \* window handle -> polls that reported it new (2 = more)
    firstRec,          \* window handle -> the first page recorded from it
    startHandles,      \* the handles that were open when start_capturing ran
    used,              \* page changes and driver faults the run has had
    win,       \* window handle -> the injected script's state in the loaded page
    captured,  \* window handle -> actions buildAction has pushed in this page load
    returned,  \* window handle -> actions drains have returned in this page load
    evSeen,    \* window handle -> events fired on the instrumented page in this load
    lastOp,    \* window handle -> what last acted on the page
    hostRet,   \* the most recent host call on a page and what it returned
    el,        \* form control a DOM event is fired on
    formEls,   \* form.elements of the form a submit event is fired on
    evType,    \* type of the DOM event handed to buildAction
    payload    \* data object buildAction has built for it

vars == <<db, now, lastCall, pre, wpc, wargs, fetched, lastSnap,
          current_session, tabUrl, queue, page_action_logs, wk, events,
          drained, drainedIn, persistFailed,
          tabContent, processed_urls, lastTab, obs, verdicts, driverFailed,
          faults, changes, lastPersist, failedAt, resubmitted,
          dialog, opened, alertDb, lastAlert, written, steps,
          stop_capturing, browser, capture_thread, pc, exit, came, caller,
          lastStop, foreign,
          tabs, all_windows, locals, tpc, poll, reportedNew, firstRec,
          startHandles, used,
          win, captured, returned, evSeen, lastOp, hostRet,
          el, formEls, evType, payload>>

pageVars == <<win, captured, returned, evSeen, lastOp, hostRet>>

maskVars == <<el, formEls, evType, payload>>

lifeVars == <<stop_capturing, browser, capture_thread, pc, exit, came, caller,
             lastStop, foreign>>

tabVars == <<tabs, all_windows, locals, tpc, poll, reportedNew, firstRec,
            startHandles, used>>

auxVars == <<pageVars, maskVars, lifeVars, tabVars>>

writerVars == <<wpc, wargs, fetched, lastSnap>>

detectVars == <<tabContent, processed_urls, lastTab, obs, verdicts>>

budgetVars == <<faults, changes>>

persistVars == <<lastPersist, failedAt, resubmitted>>

alertVars == <<dialog, opened, alertDb, lastAlert, written>>

pollVars == <<current_session, tabUrl, queue, page_action_logs, wk,
              drained, drainedIn, persistFailed, driverFailed, detectVars,
              budgetVars, persistVars, alertVars, steps>>

captureVars == <<pollVars, events>>

----------------------------------------------------------------------------
(* Bounds *)

MaxBatch == 2       \* longest batch handed to one merge
MaxStored == 3      \* most actions kept in one row's action store
MaxEvents == 2      \* most user events captured in one run
MaxFields == 2      \* most controls in a submitted form
MaxFaults == 1      \* most driver and database calls of the worker that fail in one run
MaxChanges == 3     \* most times the tabs come to show another page in one run
MaxClock == 6       \* the worker starts no poll cycle once the clock has got this far
MaxDialogs == 2     \* most dialogs the pages open in one run
MaxWorkers == 2     \* most capture workers started in one run
MaxSnapshots == 1   \* most page snapshots recorded beside the concurrent merges

----------------------------------------------------------------------------
(* Value domains *)

None == "<None>"

URLs == {"u1", "about:blank"}

\* browser.window_handles, in the order the driver lists them
HandleOrder == <<"h1", "h2">>

Handles == {HandleOrder[i] : i \in 1..Len(HandleOrder)}

\* identifiers of recording sessions the history manager hands out
RecordingSessions == {"s1", "s2"}

\* the URL the persistence layer is exercised on
MergeURLs == {"u1"}

Actions == {"a", "b"}

\* session_id arguments a caller may pass (None = argument omitted)
SessionIds == {None, "s1", "legacy_default"}

SeqsUpTo(S, n) == UNION {[1..k -> S] : k \in 0..n}

Batches == SeqsUpTo(Actions, MaxBatch)

ListVal(items) == [kind |-> "list", items |-> items]

OtherVal == [kind |-> "other", items |-> <<>>]

EmptyMap == [k \in {} |-> OtherVal]

PANull == [kind |-> "null", items |-> <<>>, map |-> EmptyMap]

PAList(items) == [kind |-> "list", items |-> items, map |-> EmptyMap]

PADict(m) == [kind |-> "dict", items |-> <<>>, map |-> m]

PAOther == [kind |-> "other", items |-> <<>>, map |-> EmptyMap]

\* Python: d[k] = v on a dict (also what a dict display does for each pair)
DictSet(m, k, v) == [x \in (DOMAIN m) \cup {k} |-> IF x = k THEN v ELSE m[x]]

NoRow ==
    [exists |-> FALSE, page_actions |-> PANull, timestamp |-> 0,
     session_id |-> None, content |-> None, content_type |-> None]

Row(pa, ts, sid, content, ctype) ==
    [exists |-> TRUE, page_actions |-> pa, timestamp |-> ts,
     session_id |-> sid, content |-> content, content_type |-> ctype]

IsPrefix(s, t) == Len(s) <= Len(t) /\ SubSeq(t, 1, Len(s)) = s

\* the list stored for session key k in an action store (empty when there is none)
ListUnder(pa, k) ==
    IF pa.kind = "dict" /\ k \in DOMAIN pa.map /\ pa.map[k].kind = "list"
    THEN pa.map[k].items
    ELSE <<>>

\* number of actions held by an action store
RECURSIVE SumLen(_, _)
SumLen(m, ks) ==
    IF ks = {} THEN 0
    ELSE LET k == CHOOSE x \in ks : TRUE
         IN Len(m[k].items) + SumLen(m, ks \ {k})

Stored(pa) ==
    IF pa.kind = "list" THEN Len(pa.items)
    ELSE IF pa.kind = "dict" THEN SumLen(pa.map, DOMAIN pa.map)
    ELSE 0

----------------------------------------------------------------------------
(* update_page_actions, src/database/vector_db.py:168-254 *)

\* session_key = session_id or "session_unknown"
SessionKey(session_id) ==
    IF session_id = None \/ session_id = "" THEN "session_unknown" ELSE session_id

\* Variant: the dict branch rebuilds the object from the merged session alone
NewActionsObj_Clobber(row, session_key, actions) ==
    IF row.exists /\ row.page_actions.kind = "list" THEN
        PADict(DictSet(DictSet(EmptyMap, "legacy_default", ListVal(row.page_actions.items)),
                       session_key, ListVal(actions)))
    ELSE IF row.exists /\ row.page_actions.kind = "dict"
            /\ session_key \in DOMAIN row.page_actions.map
            /\ row.page_actions.map[session_key].kind = "list" THEN
        PADict(DictSet(EmptyMap, session_key,
                       ListVal(row.page_actions.map[session_key].items \o actions)))
    ELSE
        PADict(DictSet(EmptyMap, session_key, ListVal(actions)))

\* Variant: the dict branch assigns the batch instead of extending the list
NewActionsObj_Assign(row, session_key, actions) ==
    IF row.exists /\ row.page_actions.kind = "list" THEN
        PADict(DictSet(DictSet(EmptyMap, "legacy_default", ListVal(row.page_actions.items)),
                       session_key, ListVal(actions)))
    ELSE IF row.exists /\ row.page_actions.kind = "dict" THEN
        PADict(DictSet(row.page_actions.map, session_key, ListVal(actions)))
    ELSE
        PADict(DictSet(EmptyMap, session_key, ListVal(actions)))

\* Variant: the legacy branch treats the flat list like an unknown format
NewActionsObj_DropLegacy(row, session_key, actions) ==
    IF row.exists /\ row.page_actions.kind = "dict" THEN
        IF session_key \in DOMAIN row.page_actions.map
           /\ row.page_actions.map[session_key].kind = "list"
        THEN PADict(DictSet(row.page_actions.map, session_key,
                            ListVal(row.page_actions.map[session_key].items \o actions)))
        ELSE PADict(DictSet(row.page_actions.map, session_key, ListVal(actions)))
    ELSE
        PADict(DictSet(EmptyMap, session_key, ListVal(actions)))

\* new_actions_obj computed from the fetched row (lines 204-222, 237)
NewActionsObj(row, session_key, actions) ==
    IF row.exists THEN
        LET existing == row.page_actions IN
        IF existing.kind = "null" THEN
            PADict(DictSet(EmptyMap, session_key, ListVal(actions)))
        ELSE IF existing.kind = "list" THEN
            PADict(DictSet(DictSet(EmptyMap, "legacy_default", ListVal(existing.items)),
                           session_key, ListVal(actions)))
        ELSE IF existing.kind = "dict" THEN
            IF session_key \in DOMAIN existing.map /\ existing.map[session_key].kind = "list"
            THEN PADict(DictSet(existing.map, session_key,
                                ListVal(existing.map[session_key].items \o actions)))
            ELSE PADict(DictSet(existing.map, session_key, ListVal(actions)))
        ELSE
            PADict(DictSet(EmptyMap, session_key, ListVal(actions)))
    ELSE
        PADict(DictSet(EmptyMap, session_key, ListVal(actions)))

\* UPDATE ... SET page_actions, timestamp, session_id = COALESCE(%s, session_id)
UpdateRow(row, obj, t, session_id) ==
    [row EXCEPT !.page_actions = obj,
                !.timestamp = t,
                !.session_id = IF session_id = None THEN row.session_id ELSE session_id]

\* Variant: the INSERT leaves the page_actions column out
InsertRow_NoActions(obj, t, session_id) == Row(PANull, t, session_id, None, "html")

\* INSERT ... (url, NULL, NULL, 'html', time, '', False, session_id, page_actions)
InsertRow(obj, t, session_id) == Row(obj, t, session_id, None, "html")

\* The statement executed after the SELECT returned `row`, and the commit:
\* UPDATE ... WHERE url = %s when a row was fetched (it changes the row that is
\* there now), INSERT ... ON CONFLICT (url) DO NOTHING otherwise.
ApplyWrite(d, url, row, obj, t, session_id) ==
    IF row.exists THEN
        IF d[url].exists
        THEN [d EXCEPT ![url] = UpdateRow(d[url], obj, t, session_id)]
        ELSE d
    ELSE
        IF d[url].exists
        THEN d
        ELSE [d EXCEPT ![url] = InsertRow(obj, t, session_id)]

\* Variant: no early return for an empty batch
update_page_actions_NoEmptyGuard(d, url, actions, session_id, t, dbOk) ==
    IF ~dbOk THEN [db |-> d, ret |-> FALSE]
    ELSE IF url = "" THEN [db |-> d, ret |-> TRUE]
    ELSE
        LET session_key == SessionKey(session_id)
            row == d[url]
            obj == NewActionsObj(row, session_key, actions)
        IN [db |-> ApplyWrite(d, url, row, obj, t, session_id), ret |-> TRUE]

\* The whole call: the table afterwards and the value returned.
\* dbOk = FALSE: connecting or a statement raised; the transaction is rolled back.
update_page_actions(d, url, actions, session_id, t, dbOk) ==
    IF ~dbOk THEN [db |-> d, ret |-> FALSE]
    ELSE IF url = "" \/ Len(actions) = 0 THEN [db |-> d, ret |-> TRUE]
    ELSE
        LET session_key == SessionKey(session_id)
            row == d[url]
            obj == NewActionsObj(row, session_key, actions)
        IN [db |-> ApplyWrite(d, url, row, obj, t, session_id), ret |-> TRUE]

----------------------------------------------------------------------------
(* Persistence layer on its own: any caller, any stored shape *)

\* shapes a row can have when the recorder starts
InitRows ==
    {NoRow,
     Row(PANull, 0, "s1", "c1", "html"),
     Row(PAList(<<>>), 0, None, "c1", "html"),
     Row(PAList(<<"a", "b">>), 0, None, "c1", "html"),
     Row(PAOther, 0, None, "c1", "html"),
     Row(PADict(EmptyMap), 0, "s1", "c1", "html"),
     Row(PADict(DictSet(EmptyMap, "s1", ListVal(<<"b", "a">>))), 0, "s1", "c1", "html"),
     Row(PADict(DictSet(EmptyMap, "s1", OtherVal)), 0, "s1", "c1", "html")}

NoCall == [made |-> FALSE, url |-> "", actions |-> <<>>, session_id |-> None, ret |-> FALSE]

Writers == {"w1", "w2"}

\* store_in_pgvector has not been called beside the writers
NoSnapshot == [n |-> 0, url |-> None, before |-> PANull, after |-> PANull]

NoWriters ==
    /\ lastSnap = NoSnapshot
    /\ wpc = [w \in Writers |-> "done"]
    /\ wargs = [w \in Writers |-> [url |-> "", actions |-> <<>>, session_id |-> None]]
    /\ fetched = [w \in Writers |-> NoRow]

Idle == [phase |-> "idle", todo |-> <<>>, results |-> <<>>]

\* window state of a freshly loaded page: the injected script has not run
EmptyWindow == [installed |-> FALSE, queue |-> <<>>, counter |-> 0, listeners |-> 0]

NoHostCall ==
    [op |-> "none", h |-> None, ran |-> FALSE, result |-> None, batch |-> <<>>,
     before |-> EmptyWindow, after |-> EmptyWindow, prevOp |-> "load"]

\* no page is being instrumented
NoPage ==
    /\ win = [h \in Handles |-> EmptyWindow]
    /\ captured = [h \in Handles |-> <<>>]
    /\ returned = [h \in Handles |-> <<>>]
    /\ evSeen = [h \in Handles |-> 0]
    /\ lastOp = [h \in Handles |-> "load"]
    /\ hostRet = NoHostCall

\* no payload is being built
\* buildAction has not built anything
NoPayload ==
    [checked |-> None, value |-> None, text |-> None, sensitive |-> None,
     href |-> None, key |-> "<unbuilt>", fields |-> None]

NoMask ==
    /\ el = None
    /\ formEls = <<>>
    /\ evType = None
    /\ payload = NoPayload

\* the page a tab shows may have any of these as its page_source
Contents == {"c1", "c2"}

\* processed_urls = {}
NoFingerprints == [u \in {} |-> 0]

NoTab ==
    [url |-> None, content |-> None, before |-> NoFingerprints, recorded |-> FALSE]

\* the worker has seen no page
NoSightings ==
    /\ processed_urls = NoFingerprints
    /\ lastTab = NoTab
    /\ obs = [u \in URLs |-> {}]
    /\ verdicts = [u \in URLs |-> 0]

\* no batch has been handed to process_new_actions
NoSubmission == [url |-> None, n |-> 0, ret |-> TRUE, emitted |-> {}]

\* no batch of the URL has had its write fail; old is set once a later poll
\* cycle has begun
NoRange == [from |-> 1, to |-> 0, old |-> FALSE]

NoPersist ==
    /\ lastPersist = NoSubmission
    /\ failedAt = [u \in URLs |-> NoRange]
    /\ resubmitted = FALSE

\* int(time.time()): the clock reading cut down to whole seconds; two
\* readings of the clock fall into one second
int_time(t) == t \div 2

\* f"{url}#alert-{int(time.time())}" for every page URL and second
AlertURLs == {<<u, sec>> : u \in URLs, sec \in 0 .. MaxClock}

\* alert.text of the dialogs, in the order the pages open them
DialogTexts == <<"first", "second", "third", "fourth">>

Dialogs == 1 .. MaxDialogs

\* check_alerts has not been called
NoAlertCall ==
    [dialog |-> 0, ret |-> FALSE, recorded |-> FALSE, emitted |-> {},
     accepted |-> FALSE, before |-> [k \in AlertURLs |-> NoRow]]

\* no page has opened a dialog
NoAlerts ==
    /\ dialog = 0
    /\ opened = 0
    /\ alertDb = [k \in AlertURLs |-> NoRow]
    /\ lastAlert = NoAlertCall
    /\ written = [d \in Dialogs |-> 0]
    /\ steps = <<>>

\* the capture workers, in the order start_capturing starts them
Workers == 1 .. MaxWorkers

\* a worker that is still inside capture_web_actions
NoExit == [cause |-> None, errors |-> {}, stopped |-> FALSE]

\* stop_capturing_process has not been called
NoStop == [expired |-> FALSE, reported |-> FALSE, killed |-> FALSE]

\* the module as it is loaded (lines 18-20): browser = None,
\* capture_thread = None, stop_capturing = False
NoLife ==
    /\ stop_capturing = FALSE
    /\ browser = None
    /\ capture_thread = 0
    /\ pc = [w \in Workers |-> "unborn"]
    /\ exit = [w \in Workers |-> NoExit]
    /\ came = [w \in Workers |-> None]
    /\ caller = "idle"
    /\ lastStop = NoStop
    /\ foreign = FALSE

\* a window handle the browser has not handed out yet
Unopened == [state |-> "unopened", url |-> None, content |-> None]

\* no page of the tab has been recorded
NoRecord == [made |-> FALSE, url |-> None, referrer |-> None, last_url |-> None]

\* capture_all_tabs has not been called
NoPoll == [made |-> FALSE, current |-> {}, previous |-> {}, reported |-> {},
           tracked |-> {}, closed |-> {}]

\* the module as it is loaded (line 23): all_windows = set(); no capture run
\* has started and the browser has handed out no handle
NoTabs ==
    /\ tabs = [h \in Handles |-> Unopened]
    /\ all_windows = {}
    /\ locals = [last_url |-> None, processed_urls |-> NoFingerprints]
    /\ tpc = "idle"
    /\ poll = NoPoll
    /\ reportedNew = [h \in Handles |-> 0]
    /\ firstRec = [h \in Handles |-> NoRecord]
    /\ startHandles = {}
    /\ used = [changes |-> 0, faults |-> 0]

NoCapture ==
    /\ NoLife
    /\ NoTabs
    /\ current_session = None
    /\ tabUrl = [h \in Handles |-> "about:blank"]
    /\ queue = [h \in Handles |-> <<>>]
    /\ page_action_logs = [u \in URLs |-> <<>>]
    /\ wk = Idle
    /\ events = 0
    /\ drained = [u \in URLs |-> <<>>]
    /\ drainedIn = [u \in URLs |-> [r \in RecordingSessions |-> <<>>]]
    /\ persistFailed = FALSE
    /\ NoPersist
    /\ NoAlerts
    /\ driverFailed = FALSE
    /\ faults = 0
    /\ changes = 0
    /\ tabContent = [h \in Handles |-> "c1"]
    /\ NoSightings

Init ==
    /\ NoWriters
    /\ NoCapture
    /\ NoPage
    /\ NoMask
    /\ db \in {d \in [URLs -> InitRows] : \A u \in URLs \ MergeURLs : d[u] = NoRow}
    /\ now = 1
    /\ lastCall = NoCall
    /\ pre = db

\* A caller runs update_page_actions to completion. The database is reachable
\* here; calls that fail are made by the capture worker below.
UpdatePageActions ==
    \E url \in MergeURLs, actions \in Batches, session_id \in SessionIds :
        LET r == update_page_actions(db, url, actions, session_id, now, TRUE) IN
        /\ Stored(r.db[url].page_actions) <= MaxStored
        /\ db' = r.db
        /\ lastCall' = [made |-> TRUE, url |-> url, actions |-> actions,
                        session_id |-> session_id, ret |-> r.ret]
        /\ pre' = db
        /\ now' = IF r.db # db THEN now + 1 ELSE now
        /\ UNCHANGED <<auxVars, writerVars, captureVars>>

Next == UpdatePageActions

Spec == Init /\ [][Next]_vars

----------------------------------------------------------------------------
(* Two update_page_actions calls for one URL running at the same time, each on
   its own connection: the SELECT (lines 198-202) and the UPDATE/INSERT with its
   commit (lines 225-249) of the two calls interleave in any order. *)

InitConcurrent ==
    /\ db \in {d \in [URLs -> InitRows] : \A u \in URLs \ MergeURLs : d[u] = NoRow}
    /\ now = 1
    /\ lastCall = NoCall
    /\ pre = db
    /\ wpc = [w \in Writers |-> "select"]
    /\ wargs \in [Writers -> [url : MergeURLs, actions : Batches \ {<<>>},
                              session_id : SessionIds]]
    /\ SessionKey(wargs["w1"].session_id) # SessionKey(wargs["w2"].session_id)
    /\ fetched = [w \in Writers |-> NoRow]
    /\ lastSnap = NoSnapshot
    /\ NoCapture
    /\ NoPage
    /\ NoMask

\* PG_CURSOR.execute("SELECT page_actions ..."); row = PG_CURSOR.fetchone()
WriterSelect(w) ==
    /\ wpc[w] = "select"
    /\ fetched' = [fetched EXCEPT ![w] = db[wargs[w].url]]
    /\ wpc' = [wpc EXCEPT ![w] = "write"]
    /\ UNCHANGED <<auxVars, db, now, lastCall, pre, wargs, lastSnap, captureVars>>

\* new_actions_obj from the fetched row, then UPDATE or INSERT, then commit
WriterWrite(w) ==
    /\ wpc[w] = "write"
    /\ LET a == wargs[w]
           obj == NewActionsObj(fetched[w], SessionKey(a.session_id), a.actions)
       IN db' = ApplyWrite(db, a.url, fetched[w], obj, now, a.session_id)
    /\ now' = now + 1
    /\ wpc' = [wpc EXCEPT ![w] = "done"]
    /\ UNCHANGED <<auxVars, lastCall, pre, wargs, fetched, lastSnap, captureVars>>

NextConcurrent == \E w \in Writers : WriterSelect(w) \/ WriterWrite(w)

SpecConcurrent == InitConcurrent /\ [][NextConcurrent]_vars

IsSuffix(s, t) == Len(s) <= Len(t) /\ SubSeq(t, Len(t) - Len(s) + 1, Len(t)) = s

\* C7: when two merges for one URL under distinct sessions have both
\* finished, the store holds both batches, however their steps interleaved.
C7_BothBatchesKept ==
    (\A w \in Writers : wpc[w] = "done")
    => \A w \in Writers :
          IsSuffix(wargs[w].actions,
                   ListUnder(db[wargs[w].url].page_actions,
                             SessionKey(wargs[w].session_id)))

----------------------------------------------------------------------------
(* The capture worker: capture_web_actions polls the tabs; every poll drains
   each page's queue (capture_all_tabs, drain_action_queue) and hands the batch
   to process_new_actions, which persists it with update_page_actions. *)

\* process_new_actions(tab_url, actions), src/browser/controller.py:421-438.
\* The accumulated list of the URL is what is handed to update_page_actions, and
\* no session_id is passed.  update_page_actions reports a failed write by
\* returning False (it raises nothing), and that value is not looked at: the
\* status notice "Recorded N action(s) on <url>" is emitted after every call.
\* The except branch, which prints to the console, is never entered.
process_new_actions(logs, d, tab_url, actions, t, dbOk) ==
    IF Len(actions) = 0
    THEN [logs |-> logs, db |-> d, called |-> FALSE, ret |-> TRUE, emitted |-> {}]
    ELSE
        LET logs2 == [logs EXCEPT ![tab_url] = @ \o actions]
            r == update_page_actions(d, tab_url, logs2[tab_url], None, t, dbOk)
        IN [logs |-> logs2, db |-> r.db, called |-> TRUE, ret |-> r.ret,
            emitted |-> {"Recorded"}]

\* lastPersist after the call p of process_new_actions for url with batch
NotePersist(last, p, url, batch) ==
    IF p.called
    THEN [url |-> url, n |-> Len(batch), ret |-> p.ret, emitted |-> p.emitted]
    ELSE last

\* failedAt after the call p: a batch whose write failed takes the places
\* it has in the accumulated list of its URL
NoteFailure(fa, logs, p, url) ==
    IF p.called /\ ~p.ret
    THEN [fa EXCEPT ![url] = [from |-> Len(logs[url]) + 1, to |-> Len(p.logs[url]),
                              old |-> FALSE]]
    ELSE fa

\* the call p hands to the merge an action of a batch of url whose write
\* failed in an earlier poll cycle
Resubmits(fa, p, url) ==
    /\ p.called
    /\ fa[url].old
    /\ \E i \in fa[url].from .. fa[url].to : i <= Len(p.logs[url])

\* Python hash() of a page source: equal strings have equal hashes
hash(content) == CASE content = "c1" -> 101 [] content = "c2" -> 202 [] OTHER -> 0

\* BeautifulSoup(content, "html.parser").get_text().strip()
get_text(content) ==
    CASE content = "c1" -> "text of c1" [] content = "c2" -> "text of c2"
      [] OTHER -> ""

\* store_in_pgvector(url, content, metadata, session_id),
\* src/database/vector_db.py:105-165: an upsert of the page's row that leaves
\* page_actions of an existing row alone.  cur is the history manager's current
\* session, which is used when no session_id is passed.
store_in_pgvector_ResetsActions(d, url, content, is_alert, session_id, cur, t, dbOk) ==
    IF ~dbOk THEN [db |-> d, ret |-> FALSE]
    ELSE
        LET text_content == IF content = "" THEN "No content available"
                            ELSE IF is_alert THEN content ELSE get_text(content)
            content_type == IF content = "" THEN "unknown"
                            ELSE IF is_alert THEN "alert" ELSE "html"
            sid == IF session_id = None THEN cur ELSE session_id
        IN [db |-> [d EXCEPT ![url] = Row(PANull, t, sid, text_content, content_type)],
            ret |-> TRUE]

store_in_pgvector(d, url, content, is_alert, session_id, cur, t, dbOk) ==
    IF ~dbOk THEN [db |-> d, ret |-> FALSE]
    ELSE
        LET text_content == IF content = "" THEN "No content available"
                            ELSE IF is_alert THEN content ELSE get_text(content)
            content_type == IF content = "" THEN "unknown"
                            ELSE IF is_alert THEN "alert" ELSE "html"
            sid == IF session_id = None THEN cur ELSE session_id
            row == IF d[url].exists
                   THEN [d[url] EXCEPT !.content = text_content,
                                       !.content_type = content_type,
                                       !.timestamp = t, !.session_id = sid]
                   ELSE Row(PANull, t, sid, text_content, content_type)
        IN [db |-> [d EXCEPT ![url] = row], ret |-> TRUE]

\* record_action(url, metadata, content, referrer): the session is the current
\* one; the graph store and the flows dictionary are not modelled
record_action(d, url, content, cur, t, dbOk) ==
    store_in_pgvector(d, url, content, FALSE, cur, cur, t, dbOk)

----------------------------------------------------------------------------
(* Page snapshots beside the merges: record_action stores a snapshot of a URL
   (store_in_pgvector) while writers of update_page_actions are anywhere
   between their SELECT and their write on the same URL. *)

\* one call of store_in_pgvector for a page of the merged URL, in any session,
\* at any point of the writers' steps; the call may fail in the database
Snapshot ==
    /\ lastSnap.n < MaxSnapshots
    /\ \E url \in MergeURLs, content \in Contents,
          session_id \in RecordingSessions \cup {None}, dbOk \in BOOLEAN :
          LET r == store_in_pgvector(db, url, content, FALSE, session_id,
                                     session_id, now, dbOk)
          IN /\ db' = r.db
             /\ lastSnap' = [n |-> lastSnap.n + 1, url |-> url,
                             before |-> db[url].page_actions,
                             after |-> r.db[url].page_actions]
    /\ now' = now + 1
    /\ UNCHANGED <<auxVars, lastCall, pre, wpc, wargs, fetched, captureVars>>

\* the writers are about to merge one action each; what a batch holds does
\* not reach store_in_pgvector
InitSnapshot ==
    /\ InitConcurrent
    /\ \A w \in Writers : Len(wargs[w].actions) = 1

NextSnapshot ==
    \/ \E w \in Writers : WriterSelect(w) \/ WriterWrite(w)
    \/ Snapshot

SpecSnapshot == InitSnapshot /\ [][NextSnapshot]_vars

\* C35: a page snapshot recorded for a URL leaves that URL's stored action log
\* as it was, wherever the call falls among the steps of the merges on the URL.
C35_SnapshotKeepsActions ==
    lastSnap.n > 0 => lastSnap.after = lastSnap.before

\* a snapshot was recorded on a row that held actions, after one writer had
\* written and while another was between its SELECT and its write
C35_Witness ==
    /\ lastSnap.n > 0
    /\ Stored(lastSnap.before) > 0
    /\ db[lastSnap.url].content_type = "html"
    /\ \E w \in Writers : wpc[w] = "write"
    /\ \E w \in Writers : wpc[w] = "done"

IsNewOrChanged_Always(pu, tab_url, content_hash) == TRUE

\* tab_url not in processed_urls or processed_urls[tab_url] != content_hash
IsNewOrChanged(pu, tab_url, content_hash) ==
    tab_url \notin DOMAIN pu \/ pu[tab_url] # content_hash

process_tab_data_KeepFingerprint(pu, d, tab_data, cur, t, dbOk) ==
    LET content_hash == hash(tab_data.content)
    IN IF IsNewOrChanged(pu, tab_data.url, content_hash)
       THEN [processed_urls |-> IF tab_data.url \in DOMAIN pu THEN pu
                                ELSE DictSet(pu, tab_data.url, content_hash),
             db |-> record_action(d, tab_data.url, tab_data.content, cur, t, dbOk).db,
             recorded |-> TRUE]
       ELSE [processed_urls |-> pu, db |-> d, recorded |-> FALSE]

\* the change detector of capture_web_actions (lines 797-824): a tab whose URL
\* is new or whose content hash differs from the stored one is recorded and
\* its hash is stored
process_tab_data(pu, d, tab_data, cur, t, dbOk) ==
    LET content_hash == hash(tab_data.content)
    IN IF IsNewOrChanged(pu, tab_data.url, content_hash)
       THEN [processed_urls |-> DictSet(pu, tab_data.url, content_hash),
             db |-> record_action(d, tab_data.url, tab_data.content, cur, t, dbOk).db,
             recorded |-> TRUE]
       ELSE [processed_urls |-> pu, db |-> d, recorded |-> FALSE]

IsBlank_Never(url) == FALSE

\* if url == "about:blank" (line 675)
IsBlank(url) == url = "about:blank"

\* 1 when a call has failed, 0 when it went through
Failed(ok) == IF ok THEN 0 ELSE 1

\* the site the worker opens first
TARGET_WEBSITE == "u1"

\* verdicts after one more finding of url as new or changed
Counted(v, url) == [v EXCEPT ![url] = IF @ < 2 THEN @ + 1 ELSE @]

InitCapture ==
    /\ NoWriters
    /\ NoPage
    /\ NoMask
    /\ db = [u \in URLs |-> NoRow]
    /\ now = 1
    /\ lastCall = NoCall
    /\ pre = db
    /\ current_session \in RecordingSessions \cup {None}
    /\ tabUrl \in [Handles -> URLs]
    /\ tabContent = [h \in Handles |-> "c1"]
    /\ queue = [h \in Handles |-> <<>>]
    /\ page_action_logs = [u \in URLs |-> <<>>]
    /\ wk = [phase |-> "start", todo |-> <<>>, results |-> <<>>]
    /\ events = 0
    /\ drained = [u \in URLs |-> <<>>]
    /\ drainedIn = [u \in URLs |-> [r \in RecordingSessions |-> <<>>]]
    /\ persistFailed = FALSE
    /\ NoLife
    /\ NoTabs
    /\ NoPersist
    /\ NoAlerts
    /\ driverFailed = FALSE
    /\ faults = 0
    /\ changes = 0
    /\ NoSightings

\* capture_web_actions up to its loop (lines 752-770): the current window
\* opens the target site, the initial page is recorded and its hash is the
\* first entry of processed_urls.
StartCapture ==
    \E dbOk \in BOOLEAN :
        /\ wk.phase = "start"
        /\ faults + Failed(dbOk) <= MaxFaults
        /\ faults' = faults + Failed(dbOk)
        /\ LET h == HandleOrder[1]
               url == TARGET_WEBSITE
               html_content == tabContent[h]
               r == record_action(db, url, html_content, current_session, now, dbOk)
           IN /\ tabUrl' = [tabUrl EXCEPT ![h] = url]
              /\ queue' = [queue EXCEPT ![h] = <<>>]
              /\ db' = r.db
              /\ now' = IF r.db # db THEN now + 1 ELSE now
              /\ processed_urls' = DictSet(NoFingerprints, url, hash(html_content))
              /\ lastTab' = [url |-> url, content |-> html_content,
                             before |-> processed_urls, recorded |-> TRUE]
              /\ obs' = [obs EXCEPT ![url] = @ \cup {html_content}]
              /\ verdicts' = Counted(verdicts, url)
        /\ wk' = [phase |-> "top", todo |-> <<>>, results |-> <<>>]
        /\ UNCHANGED <<auxVars, persistVars, alertVars, steps, lastCall, pre, writerVars, current_session, tabContent,
                       page_action_logs, events, drained, drainedIn, persistFailed,
                       driverFailed, changes>>

\* the worker is not inside a poll cycle.  What a page does while a cycle runs
\* commutes with the steps of the cycle on the other tabs: it reaches the worker
\* as if it had happened just before the cycle (the tab is yet to be visited)
\* or just after it (the tab was visited), so pages act between cycles.
OutsideCycle == wk.phase \in {"start", "top"}

\* A listener of the page builds an action and pushes it on the page's queue
\* (window.__flowActionQueue.push(action), line 353).
UserEvent ==
    \E h \in Handles, a \in Actions :
        /\ OutsideCycle
        /\ events < MaxEvents
        /\ events' = events + 1
        /\ queue' = [queue EXCEPT ![h] = Append(@, a)]
        /\ UNCHANGED <<auxVars, persistVars, alertVars, steps, db, now, lastCall, pre, writerVars, current_session, tabUrl,
                       page_action_logs, wk, drained, drainedIn, persistFailed,
                       driverFailed, detectVars, budgetVars>>

\* The user starts another recording: the history manager makes it current.
NewRecordingSession ==
    \E r \in RecordingSessions :
        /\ r # current_session
        /\ current_session' = r
        /\ UNCHANGED <<auxVars, persistVars, alertVars, steps, db, now, lastCall, pre, writerVars, tabUrl, queue,
                       page_action_logs, wk, events, drained, drainedIn, persistFailed,
                       driverFailed, detectVars, budgetVars>>

\* The tab under h shows another page: the user navigated, or the page
\* changed its content.  The window object of a page that is left is gone.
PageChange(h) ==
    \E url \in URLs, content \in Contents :
        /\ OutsideCycle
        /\ changes < MaxChanges
        /\ changes' = changes + 1
        /\ <<url, content>> # <<tabUrl[h], tabContent[h]>>
        /\ tabUrl' = [tabUrl EXCEPT ![h] = url]
        /\ tabContent' = [tabContent EXCEPT ![h] = content]
        /\ queue' = [queue EXCEPT ![h] = IF url # tabUrl[h] THEN <<>> ELSE @]
        /\ UNCHANGED <<auxVars, persistVars, alertVars, steps, db, now, lastCall, pre, writerVars, current_session,
                       page_action_logs, wk, events, drained, drainedIn, persistFailed,
                       driverFailed, processed_urls, lastTab, obs, verdicts, faults>>

\* capture_all_tabs is entered: for handle in browser.window_handles (line 659)
BeginCycle ==
    /\ wk.phase = "checked"
    /\ now < MaxClock
    /\ wk' = [phase |-> "tabs", todo |-> HandleOrder, results |-> <<>>]
    /\ steps' = Append(steps, [op |-> "window_handles", h |-> None])
    /\ failedAt' = [u \in URLs |-> IF failedAt[u].to >= failedAt[u].from
                                   THEN [failedAt[u] EXCEPT !.old = TRUE]
                                   ELSE failedAt[u]]
    /\ UNCHANGED <<auxVars, lastPersist, resubmitted, alertVars, db, now, lastCall, pre, writerVars, current_session, tabUrl, queue,
                   page_action_logs, events, drained, drainedIn, persistFailed,
                   driverFailed, detectVars, budgetVars>>

\* drainedIn after a batch was drained for url
NoteSession(dIn, url, batch) ==
    IF current_session = None THEN dIn
    ELSE [dIn EXCEPT ![url][current_session] = @ \o batch]

\* what the driver does to one iteration of the loop over the handles:
\*   "ok"      every call succeeds
\*   "switch"  switch_to.window raises: the tab is skipped untouched
\*   "drain"   execute_script raises inside drain_action_queue, which returns []
\*   "read"    current_url or page_source raises after the queue was drained
DriverOutcomes == {"ok", "switch", "drain", "read"}

TabSteps_NoDrain(h, driver) ==
    IF driver = "switch" THEN <<[op |-> "switch", h |-> h]>>
    ELSE <<[op |-> "switch", h |-> h], [op |-> "install", h |-> h],
           [op |-> "read", h |-> h]>>

\* the calls one iteration of the loop over the handles makes, in their order
\* (lines 662-672): switch_to.window, inject_action_listeners,
\* drain_action_queue, then the reads of current_url and page_source.  The
\* two helpers swallow their own exceptions, so only a failing switch ends the
\* iteration before them.
TabSteps(h, driver) ==
    IF driver = "switch" THEN <<[op |-> "switch", h |-> h]>>
    ELSE <<[op |-> "switch", h |-> h], [op |-> "install", h |-> h],
           [op |-> "drain", h |-> h], [op |-> "read", h |-> h]>>

\* the worker moves on to the next handle, or to the loop over the results
Advance(w, results) ==
    IF Len(w.todo) = 1
    THEN [phase |-> "process", todo |-> <<>>, results |-> results]
    ELSE [w EXCEPT !.todo = Tail(@), !.results = results]

\* One iteration of the loop over the handles in capture_all_tabs (lines
\* 659-688): drain the tab's queue, read its URL and content; an about:blank
\* tab has its batch processed at once, any other tab is added to the results.
\* An exception ends the iteration: what it had drained is dropped.
CaptureTab ==
    \E dbOk \in BOOLEAN, driver \in DriverOutcomes :
        /\ wk.phase = "tabs"
        /\ Len(wk.todo) > 0
        /\ faults + Failed(dbOk) + Failed(driver = "ok") <= MaxFaults
        /\ faults' = faults + Failed(dbOk) + Failed(driver = "ok")
        /\ LET h == Head(wk.todo)
               pending_actions == IF driver \in {"switch", "drain"} THEN <<>>
                                  ELSE queue[h]
               url == tabUrl[h]
               reached == driver \in {"ok", "drain"}
               p == IF reached /\ IsBlank(url)
                    THEN process_new_actions(page_action_logs, db, url, pending_actions,
                                             now, dbOk)
                    ELSE [logs |-> page_action_logs, db |-> db, called |-> FALSE,
                          ret |-> TRUE, emitted |-> {}]
               results == IF reached /\ ~IsBlank(url)
                          THEN Append(wk.results,
                                      [url |-> url, content |-> tabContent[h],
                                       events |-> pending_actions, handle |-> h])
                          ELSE wk.results
           IN /\ dbOk \/ p.called
              /\ queue' = IF driver \in {"switch", "drain"} THEN queue
                          ELSE [queue EXCEPT ![h] = <<>>]
              /\ drained' = [drained EXCEPT ![url] = @ \o pending_actions]
              /\ drainedIn' = NoteSession(drainedIn, url, pending_actions)
              /\ driverFailed' = (driverFailed \/ driver = "read")
              /\ page_action_logs' = p.logs
              /\ db' = p.db
              /\ now' = IF p.db # db THEN now + 1 ELSE now
              /\ persistFailed' = (persistFailed \/ ~p.ret)
              /\ lastPersist' = NotePersist(lastPersist, p, url, pending_actions)
              /\ failedAt' = NoteFailure(failedAt, page_action_logs, p, url)
              /\ resubmitted' = (resubmitted \/ Resubmits(failedAt, p, url))
              /\ steps' = steps \o TabSteps(h, driver)
              /\ wk' = Advance(wk, results)
        /\ UNCHANGED <<auxVars, alertVars, lastCall, pre, writerVars, current_session, tabUrl, events,
                       detectVars, changes>>

\* One iteration of the loop over tabs_data in capture_web_actions (lines
\* 787-824): the tab's events are processed, then the change detector decides
\* whether the page is recorded.
ProcessTab ==
    \E dbOk \in BOOLEAN, storeOk \in BOOLEAN :
        /\ wk.phase = "process"
        /\ Len(wk.results) > 0
        /\ faults + Failed(dbOk) + Failed(storeOk) <= MaxFaults
        /\ faults' = faults + Failed(dbOk) + Failed(storeOk)
        /\ LET tab_data == Head(wk.results)
               p == process_new_actions(page_action_logs, db, tab_data.url,
                                        tab_data.events, now, dbOk)
               t == IF p.db # db THEN now + 1 ELSE now
               s == process_tab_data(processed_urls, p.db, tab_data, current_session,
                                     t, storeOk)
           IN /\ dbOk \/ p.called
              /\ storeOk \/ s.recorded
              /\ page_action_logs' = p.logs
              /\ db' = s.db
              /\ now' = IF s.db # p.db THEN t + 1 ELSE t
              /\ persistFailed' = (persistFailed \/ ~p.ret)
              /\ lastPersist' = NotePersist(lastPersist, p, tab_data.url,
                                            tab_data.events)
              /\ failedAt' = NoteFailure(failedAt, page_action_logs, p, tab_data.url)
              /\ resubmitted' = (resubmitted \/ Resubmits(failedAt, p, tab_data.url))
              /\ processed_urls' = s.processed_urls
              /\ lastTab' = [url |-> tab_data.url, content |-> tab_data.content,
                             before |-> processed_urls, recorded |-> s.recorded]
              /\ obs' = [obs EXCEPT ![tab_data.url] = @ \cup {tab_data.content}]
              /\ verdicts' = IF s.recorded THEN Counted(verdicts, tab_data.url)
                             ELSE verdicts
              /\ steps' = Append(steps, [op |-> "compare", h |-> tab_data.handle])
        /\ wk' = [wk EXCEPT !.results = Tail(@)]
        /\ UNCHANGED <<auxVars, alertVars, lastCall, pre, writerVars, current_session, tabUrl, queue,
                       events, drained, drainedIn, driverFailed, tabContent, changes>>

\* The loop over tabs_data is over: the worker sleeps and polls again (line 831).
EndCycle ==
    /\ wk.phase = "process"
    /\ Len(wk.results) = 0
    /\ wk' = [phase |-> "top", todo |-> <<>>, results |-> <<>>]
    /\ steps' = <<>>
    /\ UNCHANGED <<auxVars, persistVars, alertVars, db, now, lastCall, pre, writerVars, current_session, tabUrl, queue,
                   page_action_logs, events, drained, drainedIn, persistFailed,
                   driverFailed, detectVars, budgetVars>>

\* record_action(alert_url, alert_metadata, alert_content, url): the metadata
\* of an alert has is_alert set
record_alert(d, alert_url, alert_content, cur, t, dbOk) ==
    store_in_pgvector(d, alert_url, alert_content, TRUE, cur, cur, t, dbOk)

\* what the driver does to one check_alerts call on a dialog:
\*   "ok"      every call succeeds
\*   "text"    the wait, alert.text or browser.current_url raises
\*   "accept"  alert.accept() raises
AlertOutcomes == {"ok", "text", "accept"}

\* check_alerts(), src/browser/controller.py:704-736.  Everything is inside one
\* try whose bare except returns False: the wait for a dialog (which times out
\* when there is none), the reads, record_action, the status notice and, last,
\* alert.accept().
check_alerts(ad, dlg, url, cur, t, driver, dbOk) ==
    IF dlg = 0 \/ driver = "text"
    THEN [alertDb |-> ad, ret |-> FALSE, recorded |-> FALSE, stored |-> FALSE,
          emitted |-> {}, accepted |-> FALSE]
    ELSE
        LET alert_text == DialogTexts[dlg]
            alert_url == <<url, int_time(t)>>
            r == record_alert(ad, alert_url, alert_text, cur, t, dbOk)
        IN [alertDb |-> r.db, ret |-> driver = "ok", recorded |-> TRUE,
            stored |-> r.ret, emitted |-> {"Captured alert"},
            accepted |-> driver = "ok"]

\* A page opens a dialog (alert, confirm or prompt); the browser shows one
\* dialog at a time.
DialogOpens ==
    /\ OutsideCycle
    /\ wk.phase # "start"
    /\ dialog = 0
    /\ opened < MaxDialogs
    /\ opened' = opened + 1
    /\ dialog' = opened + 1
    /\ UNCHANGED <<auxVars, persistVars, alertDb, lastAlert, written, steps, db, now,
                   lastCall, pre, writerVars, current_session, tabUrl, queue,
                   page_action_logs, wk, events, drained, drainedIn, persistFailed,
                   driverFailed, detectVars, budgetVars>>

\* The top of the poll loop (lines 779-781): if check_alerts(): continue.  A
\* handled dialog sends the worker back to the top of the loop, past
\* capture_all_tabs and the pause; otherwise the cycle goes on.  A dialog whose
\* handling failed may still be there or may be gone (the user closed it).
CheckAlerts ==
    \E driver \in AlertOutcomes, dbOk \in BOOLEAN, gone \in BOOLEAN :
        /\ wk.phase = "top"
        /\ now < MaxClock
        /\ dialog = 0 => (driver = "ok" /\ dbOk /\ gone)
        /\ driver = "ok" => gone
        /\ faults + Failed(dbOk) + Failed(driver = "ok") <= MaxFaults
        /\ faults' = faults + Failed(dbOk) + Failed(driver = "ok")
        /\ LET url == tabUrl[HandleOrder[1]]
               c == check_alerts(alertDb, dialog, url, current_session, now, driver,
                                 dbOk)
           IN /\ dbOk \/ c.recorded
              /\ alertDb' = c.alertDb
              /\ now' = IF c.alertDb # alertDb THEN now + 1 ELSE now
              /\ dialog' = IF c.accepted \/ gone THEN 0 ELSE dialog
              /\ lastAlert' = [dialog |-> dialog, ret |-> c.ret,
                               recorded |-> c.recorded, emitted |-> c.emitted,
                               accepted |-> c.accepted, before |-> alertDb]
              /\ written' = IF c.stored
                            THEN [written EXCEPT ![dialog] = IF @ < 2 THEN @ + 1 ELSE @]
                            ELSE written
              /\ wk' = IF c.ret THEN wk ELSE [wk EXCEPT !.phase = "checked"]
              /\ steps' = IF c.ret THEN <<>>
                          ELSE <<[op |-> "check_alerts", h |-> None]>>
        /\ UNCHANGED <<auxVars, persistVars, opened, db, lastCall, pre, writerVars,
                       current_session, tabUrl, queue, page_action_logs, events,
                       drained, drainedIn, persistFailed, driverFailed, detectVars,
                       changes>>

NextCapture ==
    \/ StartCapture
    \/ CheckAlerts
    \/ UserEvent
    \/ NewRecordingSession
    \/ BeginCycle
    \/ CaptureTab
    \/ ProcessTab
    \/ EndCycle

SpecCapture == InitCapture /\ [][NextCapture]_vars

\* The change detector on its own: tabs of any content and pages that change
\* between polls, with no user events and no recording session
InitDetect ==
    /\ NoWriters
    /\ NoPage
    /\ NoMask
    /\ db = [u \in URLs |-> NoRow]
    /\ now = 1
    /\ lastCall = NoCall
    /\ pre = db
    /\ current_session = None
    /\ tabUrl \in [Handles -> URLs]
    /\ tabContent \in [Handles -> Contents]
    /\ queue = [h \in Handles |-> <<>>]
    /\ page_action_logs = [u \in URLs |-> <<>>]
    /\ wk = [phase |-> "start", todo |-> <<>>, results |-> <<>>]
    /\ events = 0
    /\ drained = [u \in URLs |-> <<>>]
    /\ drainedIn = [u \in URLs |-> [r \in RecordingSessions |-> <<>>]]
    /\ persistFailed = FALSE
    /\ NoLife
    /\ NoTabs
    /\ NoPersist
    /\ NoAlerts
    /\ driverFailed = FALSE
    /\ faults = 0
    /\ changes = 0
    /\ NoSightings

NextDetect ==
    \/ StartCapture
    \/ CheckAlerts
    \/ BeginCycle
    \/ CaptureTab
    \/ ProcessTab
    \/ EndCycle
    \/ \E h \in Handles : PageChange(h)

SpecDetect == InitDetect /\ [][NextDetect]_vars

\* Tabs that keep their page, blank or not, while the user acts on them; no
\* recording session
InitBlank == InitCapture /\ current_session = None

NextBlank ==
    \/ StartCapture
    \/ CheckAlerts
    \/ UserEvent
    \/ BeginCycle
    \/ CaptureTab
    \/ ProcessTab
    \/ EndCycle

SpecBlank == InitBlank /\ [][NextBlank]_vars

\* Pages that open dialogs while the worker polls them: tabs that keep their
\* page, no user events and no recording session
InitAlert == InitCapture /\ current_session = None

NextAlert ==
    \/ StartCapture
    \/ DialogOpens
    \/ CheckAlerts
    \/ BeginCycle
    \/ CaptureTab
    \/ ProcessTab
    \/ EndCycle

SpecAlert == InitAlert /\ [][NextAlert]_vars

\* every drained batch has been handed on: the worker is between two polls
BetweenPolls == wk.phase = "top"

\* C2: after any number of polls the list persisted for a URL is exactly the
\* batches drained for it, in poll order, each action once.
C2_PersistedIsDrainedOnce ==
    (BetweenPolls /\ ~persistFailed)
    => \A u \in URLs :
          ListUnder(db[u].page_actions, "session_unknown") = drained[u]
          \/ \E r \in RecordingSessions :
                ListUnder(db[u].page_actions, r) = drained[u]

\* C3: every action drained while a recording session was current is stored
\* under that session's identifier as the key of the URL's action store.
C3_StoredUnderRecordingSession ==
    (BetweenPolls /\ ~persistFailed)
    => \A u \in URLs : \A r \in RecordingSessions :
          \A i \in 1..Len(drainedIn[u][r]) :
             \E j \in 1..Len(ListUnder(db[u].page_actions, r)) :
                ListUnder(db[u].page_actions, r)[j] = drainedIn[u][r][i]

\* the alert records the page store holds
AlertRows == {k \in AlertURLs : alertDb[k].exists}

\* C21: every dialog that check_alerts handles has produced exactly one alert
\* record and was accepted, the worker is back at the top of the poll loop
\* without having enumerated the tabs, and no dialog is recorded in two cycles.
C21_DialogRecordedOnce ==
    /\ (lastAlert.dialog # 0 /\ lastAlert.ret)
       => /\ lastAlert.recorded
          /\ lastAlert.accepted
          /\ wk.phase = "top"
          /\ steps = <<>>
    /\ \A d \in Dialogs : written[d] <= 1
    /\ Cardinality(AlertRows) = Cardinality({d \in Dialogs : written[d] >= 1})

\* C22: a check_alerts call that reports "not handled" has had no side effect:
\* it wrote no alert record and emitted no status notice.
C22_NotHandledNoEffects ==
    ~lastAlert.ret
    => /\ alertDb = lastAlert.before
       /\ lastAlert.emitted = {}

\* C23: in a poll cycle the dialog check comes before the tabs are enumerated,
\* and a tab's content is compared with the stored fingerprint only after the
\* listeners were installed on that tab and its queue was drained.
C23_CheckInstallDrainCompare ==
    \A i \in DOMAIN steps :
        /\ steps[i].op \in {"window_handles", "switch"}
           => \E j \in 1 .. i - 1 : steps[j].op = "check_alerts"
        /\ steps[i].op = "compare"
           => \E j \in 1 .. i - 1, k \in 1 .. i - 1 :
                 /\ j < k
                 /\ steps[j] = [op |-> "install", h |-> steps[i].h]
                 /\ steps[k] = [op |-> "drain", h |-> steps[i].h]

C23_Witness ==
    \E i \in DOMAIN steps : steps[i].op = "compare"

\* C29: a batch whose persistence write failed is dropped without retry: none
\* of its actions is handed to the persistence merge again in a later cycle.
C29_FailedBatchNotResubmitted == ~resubmitted

\* C30: for a batch whose persistence write failed, no "Recorded N action(s)"
\* success notice is emitted and a failure notice is.
C30_FailureSurfaced ==
    (lastPersist.n > 0 /\ ~lastPersist.ret)
    => /\ "Recorded" \notin lastPersist.emitted
       /\ lastPersist.emitted # {}

----------------------------------------------------------------------------
(* The script injected into a page: inject_action_listeners and              *)
(* drain_action_queue.  win[h] is the state the script keeps on the window   *)
(* object of the page loaded under handle h; a read of a property that is    *)
(* not defined yet goes through "|| []" or "|| 0" in the script, so an       *)
(* undefined queue is the empty queue and an undefined counter is 0.         *)
(* An event here is a user interaction that a registered listener records.   *)

\* buildAction: window.__flowActionCounter += 1; the action takes that number
\* as action_id and is pushed on window.__flowActionQueue
BuildAction(w, a) ==
    LET n == w.counter + 1
    IN [w EXCEPT !.counter = n,
                 !.queue = Append(w.queue, [action_id |-> n, what |-> a])]

\* a DOM event runs the handler of every listener registered for it
RECURSIVE Dispatch(_, _, _)
Dispatch(w, a, n) ==
    IF n = 0 THEN w ELSE Dispatch(BuildAction(w, a), a, n - 1)

InstallScript_NoGuard(w) ==
    [win |-> [installed |-> TRUE, queue |-> <<>>, counter |-> 0,
              listeners |-> w.listeners + 1],
     result |-> "installed"]

\* the script of inject_action_listeners
InstallScript(w) ==
    IF w.installed
    THEN [win |-> w, result |-> "already"]
    ELSE [win |-> [installed |-> TRUE, queue |-> <<>>, counter |-> 0,
                   listeners |-> w.listeners + 1],
          result |-> "installed"]

DrainScript_NoClear(w) == [win |-> w, batch |-> w.queue]

DrainScript_LosesTail(w) ==
    [win |-> [w EXCEPT !.queue = <<>>],
     batch |-> IF w.queue = <<>> THEN <<>> ELSE SubSeq(w.queue, 1, Len(w.queue) - 1)]

DrainScript_ResetCounter(w) ==
    [win |-> [w EXCEPT !.queue = <<>>, !.counter = 0], batch |-> w.queue]

\* the script of drain_action_queue: q = queue; queue = []; return q
DrainScript(w) == [win |-> [w EXCEPT !.queue = <<>>], batch |-> w.queue]

\* inject_action_listeners(): nothing happens when the browser is not alive
\* or execute_script raises (driverOk = FALSE); the function returns None
inject_action_listeners(w, driverOk) ==
    IF ~driverOk
    THEN [win |-> w, ran |-> FALSE, result |-> None]
    ELSE LET r == InstallScript(w)
         IN [win |-> r.win, ran |-> TRUE, result |-> r.result]

\* drain_action_queue(): [] when the browser is not alive or execute_script
\* raises, else what the script returned
drain_action_queue(w, driverOk) ==
    IF ~driverOk
    THEN [win |-> w, ran |-> FALSE, batch |-> <<>>]
    ELSE LET r == DrainScript(w)
         IN [win |-> r.win, ran |-> TRUE, batch |-> r.batch]

InitPage ==
    /\ NoWriters
    /\ NoCapture
    /\ NoMask
    /\ NoPage
    /\ db = [u \in URLs |-> NoRow]
    /\ now = 1
    /\ lastCall = NoCall
    /\ pre = db

\* the host calls inject_action_listeners() on the page under h
InjectActionListeners(h) ==
    \E driverOk \in BOOLEAN :
        LET r == inject_action_listeners(win[h], driverOk)
        IN /\ win' = [win EXCEPT ![h] = r.win]
           /\ hostRet' = [op |-> "install", h |-> h, ran |-> r.ran,
                          result |-> r.result, batch |-> <<>>,
                          before |-> win[h], after |-> r.win,
                          prevOp |-> lastOp[h]]
           /\ lastOp' = IF r.win # win[h] THEN [lastOp EXCEPT ![h] = "install"]
                        ELSE lastOp
           /\ captured' = IF r.win # win[h] THEN [captured EXCEPT ![h] = <<>>]
                          ELSE captured
           /\ returned' = IF r.win # win[h] THEN [returned EXCEPT ![h] = <<>>]
                          ELSE returned
           /\ evSeen' = IF r.win # win[h] THEN [evSeen EXCEPT ![h] = 0] ELSE evSeen
           /\ UNCHANGED <<db, now, lastCall, pre, writerVars, lifeVars, tabVars, captureVars, maskVars>>

\* the host calls drain_action_queue() on the page under h
DrainActionQueue(h) ==
    \E driverOk \in BOOLEAN :
        LET r == drain_action_queue(win[h], driverOk)
        IN /\ win' = [win EXCEPT ![h] = r.win]
           /\ hostRet' = [op |-> "drain", h |-> h, ran |-> r.ran,
                          result |-> None, batch |-> r.batch,
                          before |-> win[h], after |-> r.win,
                          prevOp |-> lastOp[h]]
           /\ lastOp' = IF r.ran THEN [lastOp EXCEPT ![h] = "drain"] ELSE lastOp
           /\ returned' = [returned EXCEPT ![h] = @ \o r.batch]
           /\ UNCHANGED <<captured, evSeen>>
           /\ UNCHANGED <<db, now, lastCall, pre, writerVars, lifeVars, tabVars, captureVars, maskVars>>

\* the user interacts with the page under h
PageEvent(h) ==
    /\ events < MaxEvents
    /\ \E a \in Actions :
          LET w == Dispatch(win[h], a, win[h].listeners)
              pushed == SubSeq(w.queue, Len(win[h].queue) + 1, Len(w.queue))
          IN /\ win' = [win EXCEPT ![h] = w]
             /\ captured' = [captured EXCEPT ![h] = @ \o pushed]
             /\ evSeen' = IF win[h].listeners > 0
                          THEN [evSeen EXCEPT ![h] = @ + 1] ELSE evSeen
             /\ lastOp' = IF pushed # <<>> THEN [lastOp EXCEPT ![h] = "event"]
                          ELSE lastOp
    /\ events' = events + 1
    /\ UNCHANGED <<returned, hostRet>>
    /\ UNCHANGED <<db, now, lastCall, pre, writerVars, lifeVars, tabVars, pollVars, maskVars>>

\* the tab under h loads a page (navigation or reload): a new window object
PageLoad(h) ==
    /\ win' = [win EXCEPT ![h] = EmptyWindow]
    /\ captured' = [captured EXCEPT ![h] = <<>>]
    /\ returned' = [returned EXCEPT ![h] = <<>>]
    /\ evSeen' = [evSeen EXCEPT ![h] = 0]
    /\ lastOp' = [lastOp EXCEPT ![h] = "load"]
    /\ UNCHANGED hostRet
    /\ UNCHANGED <<db, now, lastCall, pre, writerVars, lifeVars, tabVars, captureVars, maskVars>>

NextPage ==
    \E h \in Handles :
        \/ InjectActionListeners(h)
        \/ DrainActionQueue(h)
        \/ PageEvent(h)
        \/ PageLoad(h)

SpecPage == InitPage /\ [][NextPage]_vars

----------------------------------------------------------------------------
(* The payload buildAction builds for one DOM event: isSensitive and the     *)
(* dataObj branches.  The attribute strings isSensitive searches are         *)
(* sequences of characters, so that toLowerCase and includes are computed;   *)
(* values and texts are opaque strings.  A JSON boolean in a payload is      *)
(* written "true" or "false"; a key the payload does not have is None.       *)

\* values a user may have put into a control
Values == {"v1", "v2"}

MaskToken == "***"

\* name attributes a control may carry (empty when absent)
Names == {<<>>, <<"u", "s", "e", "r">>,
          <<"A", "u", "t", "h", "T", "o", "k", "e", "n">>}

\* id attributes a control may carry
Ids == {<<>>, <<"p", "w", "d">>}

\* tagName and type property of the element kinds of a page
Kinds ==
    { [tagName |-> "INPUT", type |-> "text"],
      [tagName |-> "INPUT", type |-> "password"],
      [tagName |-> "TEXTAREA", type |-> "textarea"],
      [tagName |-> "SELECT", type |-> "select-one"],
      [tagName |-> "INPUT", type |-> "checkbox"],
      [tagName |-> "INPUT", type |-> "radio"],
      [tagName |-> "INPUT", type |-> "submit"],
      [tagName |-> "BUTTON", type |-> "submit"],
      [tagName |-> "A", type |-> ""] }

\* text of the option of a select that carries value v
OptionText(v) ==
    CASE v = "v1" -> "label of v1" [] v = "v2" -> "label of v2" [] OTHER -> ""

\* rendered text an element of kind k may have
InnerTexts(k) ==
    CASE k.tagName = "BUTTON" -> {"", " Save "}
      [] k.tagName = "A" -> {" a link"}
      [] OTHER -> {""}

Element(k, name, id, value, checked, innerText) ==
    [tagName |-> k.tagName, type |-> k.type, name |-> name, id |-> id,
     placeholder |-> <<>>, autocomplete |-> <<>>, aria_label |-> <<>>,
     value |-> value, checked |-> checked,
     optionText |-> IF k.tagName = "SELECT" THEN OptionText(value) ELSE "",
     innerText |-> innerText,
     href |-> IF k.tagName = "A" THEN "/next" ELSE ""]

Elements ==
    UNION {{Element(k, n, i, v, c, t) :
               n \in Names, i \in Ids, v \in Values, c \in BOOLEAN,
               t \in InnerTexts(k)} : k \in Kinds}

\* the controls a form lists in form.elements
Controls == {e \in Elements : e.tagName # "A" /\ e.id = <<>> /\ e.innerText = ""}

EventTypes == {"input", "change", "click", "keydown", "submit"}

\* String.prototype.toLowerCase on the characters that occur
LowerChar(c) == CASE c = "A" -> "a" [] c = "T" -> "t" [] OTHER -> c

toLowerCase(str) == [i \in DOMAIN str |-> LowerChar(str[i])]

\* tagName.toLowerCase() and type.toLowerCase() on the names that occur
LowerName(t) ==
    CASE t = "INPUT" -> "input" [] t = "TEXTAREA" -> "textarea"
      [] t = "SELECT" -> "select" [] t = "BUTTON" -> "button"
      [] t = "A" -> "a" [] t = "FORM" -> "form" [] OTHER -> t

\* String.prototype.includes
includes(h, k) ==
    \E i \in 1..(Len(h) - Len(k) + 1) : SubSeq(h, i, i + Len(k) - 1) = k

\* String.prototype.trim on the texts that occur
trim(str) ==
    CASE str = " Save " -> "Save" [] str = " a link" -> "a link" [] OTHER -> str

\* JavaScript a || b on strings
OrElse(a, b) == IF a = "" THEN b ELSE a

JsBool(b) == IF b THEN "true" ELSE "false"

needles ==
    { <<"p", "a", "s", "s", "w", "o", "r", "d">>, <<"p", "a", "s", "s">>,
      <<"p", "w", "d">>, <<"s", "e", "c", "r", "e", "t">>,
      <<"t", "o", "k", "e", "n">>, <<"s", "s", "n">>, <<"s", "i", "n">>,
      <<"c", "r", "e", "d", "i", "t">>, <<"c", "a", "r", "d">>,
      <<"c", "v", "c">>, <<"c", "v", "v">>, <<"p", "i", "n">> }

\* of the type values that occur, "password" alone contains a needle
isSensitive(e) ==
    LET t == LowerName(e.type)
        haystacks == {toLowerCase(e.name), toLowerCase(e.id),
                      toLowerCase(e.placeholder), toLowerCase(e.autocomplete),
                      toLowerCase(e.aria_label)}
    IN \/ t = "password"
       \/ \E h \in haystacks : \E k \in needles : includes(h, k)

NoData ==
    [checked |-> None, value |-> None, text |-> None, sensitive |-> None,
     href |-> None, key |-> None, fields |-> None]

\* the entry of one form control in the field list of a submit action
Field(e) ==
    LET elType == LowerName(OrElse(e.type, e.tagName))
        sens == isSensitive(e)
    IN [name |-> e.name, id |-> e.id, type |-> elType,
        value |-> IF elType \in {"checkbox", "radio"} THEN JsBool(e.checked)
                  ELSE IF LowerName(e.tagName) = "select" THEN e.value
                  ELSE IF sens THEN MaskToken ELSE e.value,
        sensitive |-> JsBool(sens)]

\* buildAction's dataObj for an event of the given type on target; elements is
\* form.elements of the target's form
dataObj(type, target, elements) ==
    LET fieldType == LowerName(OrElse(target.type, target.tagName))
        sensitive == isSensitive(target)
        tName == LowerName(target.tagName)
    IN IF type \in {"input", "change"}
       THEN [NoData EXCEPT
               !.checked = IF fieldType \in {"checkbox", "radio"}
                           THEN JsBool(target.checked) ELSE None,
               !.value = IF tName = "select" THEN target.value
                         ELSE IF fieldType \notin {"checkbox", "radio"}
                         THEN (IF sensitive THEN MaskToken ELSE target.value)
                         ELSE None,
               !.text = IF tName = "select" THEN target.optionText ELSE None,
               !.sensitive = JsBool(sensitive)]
       ELSE IF type = "click"
       THEN [NoData EXCEPT
               !.href = IF tName = "a" THEN target.href ELSE None,
               !.text = IF tName = "button"
                           \/ (tName = "input"
                               /\ fieldType \in {"button", "submit", "reset"})
                        THEN trim(OrElse(target.innerText, target.value))
                        ELSE None]
       ELSE IF type = "submit"
       THEN [NoData EXCEPT
               !.fields = [i \in DOMAIN elements |-> Field(elements[i])]]
       ELSE [NoData EXCEPT !.key = "Enter"]

\* the listeners' own filters: which events reach buildAction
Listens(type, target) ==
    LET tag == LowerName(target.tagName)
        t == LowerName(target.type)
    IN CASE type = "change" -> tag \in {"input", "textarea", "select"}
         [] type = "input" -> \/ t = "password"
                              \/ tag = "textarea"
                              \/ t \in {"email", "number", "tel", "search",
                                        "text", "url"}
         [] OTHER -> TRUE

FormElement == Element([tagName |-> "FORM", type |-> ""], <<>>, <<>>, "", FALSE, "")

\* a page element and an event about to be fired on it; a submit event is
\* fired on a form
InitMask ==
    /\ NoWriters
    /\ NoCapture
    /\ NoPage
    /\ db = [u \in URLs |-> NoRow]
    /\ now = 1
    /\ lastCall = NoCall
    /\ pre = db
    /\ payload = NoPayload
    /\ \/ /\ evType \in EventTypes \ {"submit"}
          /\ el \in Elements
          /\ formEls = <<>>
       \/ /\ evType = "submit"
          /\ el = FormElement
          /\ formEls \in SeqsUpTo(Controls, MaxFields) \ {<<>>}

\* the event fires: the listener calls buildAction
FireEvent ==
    /\ payload = NoPayload
    /\ Listens(evType, el)
    /\ payload' = dataObj(evType, el, formEls)
    /\ UNCHANGED <<el, formEls, evType>>
    /\ UNCHANGED <<db, now, lastCall, pre, writerVars, lifeVars, tabVars, captureVars, pageVars>>

NextMask == FireEvent

SpecMask == InitMask /\ [][NextMask]_vars

----------------------------------------------------------------------------
(* The threads of the recorder: the thread of the application calls          *)
(* start_browser, start_capturing, stop_capturing_process and stop_browser,  *)
(* and every start_capturing starts a worker that runs capture_web_actions.  *)
(* Here a worker is the control flow of capture_web_actions; what a poll     *)
(* cycle does to the pages and the stores is the subject of SpecCapture and  *)
(* is left out.  The calls of the application are made one after another.    *)

\* is_browser_alive() (lines 30-39)
is_browser_alive(b) == b = "open"

LoopCondition_Ignored(stop) == TRUE

\* while not stop_capturing (line 773)
LoopCondition(stop) == ~stop

BreaksAfterError_Always(b) == TRUE

\* if not is_browser_alive(): break, in the handler of a failed cycle (lines
\* 837-838)
BreaksAfterError(b) == ~is_browser_alive(b)

\* thread.is_alive()
IsAliveThread(p) == p \notin {"unborn", "done"}

\* some worker has been started and has not yet returned
SomeWorkerAlive == \E w \in Workers : IsAliveThread(pc[w])

\* the application issues a driver call on the browser object b
Drives(b) == b # None /\ SomeWorkerAlive

InitLife ==
    /\ NoWriters
    /\ NoCapture
    /\ NoPage
    /\ NoMask
    /\ db = [u \in URLs |-> NoRow]
    /\ now = 1
    /\ lastCall = NoCall
    /\ pre = db

storeVars == <<db, now, lastCall, pre, writerVars, captureVars, pageVars, maskVars>>

dataVars == <<storeVars, tabVars>>

\* start_browser() (lines 91-152): a browser that is alive is kept, otherwise
\* a new one is created
StartBrowser ==
    /\ caller = "idle"
    /\ ~is_browser_alive(browser)
    /\ browser' = "open"
    /\ UNCHANGED <<stop_capturing, capture_thread, pc, exit, came, caller, lastStop,
                   foreign, dataVars>>

\* The user closes the browser window, or the driver dies.
BrowserCloses ==
    /\ browser = "open"
    /\ browser' = "closed"
    /\ UNCHANGED <<stop_capturing, capture_thread, pc, exit, came, caller, lastStop,
                   foreign, dataVars>>

\* start_capturing(target_url) (lines 848-878): the flag is cleared, the
\* window handles are read and the target is opened in the calling thread, then
\* a new worker is started.  Nothing looks at capture_thread before.  When
\* browser.get raises, "Navigation Error" is emitted and no worker is started.
StartCapturing ==
    \E navOk \in BOOLEAN :
        /\ caller = "idle"
        /\ capture_thread < MaxWorkers
        /\ navOk => is_browser_alive(browser)
        /\ stop_capturing' = FALSE
        /\ foreign' = (foreign \/ Drives(browser))
        /\ IF navOk
           THEN /\ capture_thread' = capture_thread + 1
                /\ pc' = [pc EXCEPT ![capture_thread + 1] = "begin"]
           ELSE UNCHANGED <<capture_thread, pc>>
        /\ UNCHANGED <<browser, exit, came, caller, lastStop, dataVars>>

\* stop_capturing_process() (lines 882-888), up to the join: the flag is set,
\* and a worker that is alive is waited for
StopCapturingProcess ==
    /\ caller = "idle"
    /\ stop_capturing' = TRUE
    /\ IF capture_thread # 0 /\ IsAliveThread(pc[capture_thread])
       THEN caller' = "join" /\ UNCHANGED lastStop
       ELSE caller' = "idle" /\ lastStop' = NoStop
    /\ UNCHANGED <<browser, capture_thread, pc, exit, came, foreign, dataVars>>

\* capture_thread.join(timeout=2) returns: the worker has returned, or the two
\* seconds are over.  stop_capturing_process then returns None; it looks at
\* nothing and emits nothing.
JoinReturns ==
    /\ caller = "join"
    /\ caller' = "idle"
    /\ lastStop' = [expired |-> IsAliveThread(pc[capture_thread]),
                    reported |-> FALSE, killed |-> FALSE]
    /\ UNCHANGED <<stop_capturing, browser, capture_thread, pc, exit, came, foreign,
                   dataVars>>

\* stop_browser() (lines 156-171), up to the sleep: stop_capturing = True;
\* time.sleep(1)
StopBrowser ==
    /\ caller = "idle"
    /\ stop_capturing' = TRUE
    /\ caller' = "quit"
    /\ UNCHANGED <<browser, capture_thread, pc, exit, came, lastStop, foreign,
                   dataVars>>

\* stop_browser() after the sleep: browser.quit() when there is a browser,
\* then browser = None.  No worker is joined.
QuitBrowser ==
    /\ caller = "quit"
    /\ caller' = "idle"
    /\ foreign' = (foreign \/ Drives(browser))
    /\ browser' = None
    /\ UNCHANGED <<stop_capturing, capture_thread, pc, exit, came, lastStop, dataVars>>

\* capture_web_actions up to its loop (lines 747-770): without a live browser
\* "Browser Error" is emitted and the function returns; an exception of the
\* driver goes to the outer handler, which emits "Capture Error", and the
\* function ends with "Capture thread stopped".
WorkerBegin(w) ==
    \E ok \in BOOLEAN :
        /\ pc[w] = "begin"
        /\ IF ~is_browser_alive(browser)
           THEN /\ ok
                /\ pc' = [pc EXCEPT ![w] = "done"]
                /\ exit' = [exit EXCEPT ![w] = [cause |-> "not running",
                                                errors |-> {"Browser Error"},
                                                stopped |-> FALSE]]
                /\ UNCHANGED came
           ELSE IF ok
           THEN /\ pc' = [pc EXCEPT ![w] = "loop"]
                /\ came' = [came EXCEPT ![w] = "begin"]
                /\ UNCHANGED exit
           ELSE /\ pc' = [pc EXCEPT ![w] = "done"]
                /\ exit' = [exit EXCEPT ![w] = [cause |-> "exception",
                                                errors |-> {"Capture Error"},
                                                stopped |-> TRUE]]
                /\ UNCHANGED came
        /\ UNCHANGED <<stop_capturing, browser, capture_thread, caller, lastStop,
                       foreign, dataVars>>

\* The head of the loop (lines 773-777): the flag is tested, then the browser.
\* A worker that finds the flag set leaves the loop; one that finds the
\* browser gone emits "Browser Error" and breaks.  Either way the function
\* ends with "Capture thread stopped".
LoopTop(w) ==
    /\ pc[w] = "loop"
    /\ came' = [came EXCEPT ![w] = None]
    /\ IF ~LoopCondition(stop_capturing)
       THEN /\ pc' = [pc EXCEPT ![w] = "done"]
            /\ exit' = [exit EXCEPT ![w] = [cause |-> "stop",
                                            errors |-> {}, stopped |-> TRUE]]
       ELSE IF ~is_browser_alive(browser)
       THEN /\ pc' = [pc EXCEPT ![w] = "done"]
            /\ exit' = [exit EXCEPT ![w] = [cause |-> "closed at top",
                                            errors |-> {"Browser Error"},
                                            stopped |-> TRUE]]
       ELSE /\ pc' = [pc EXCEPT ![w] = "alerts"]
            /\ UNCHANGED exit
    /\ UNCHANGED <<stop_capturing, browser, capture_thread, caller, lastStop,
                   foreign, dataVars>>

\* if check_alerts(): continue (lines 779-781).  A dialog can be handled only
\* on a live browser.
AlertCheck(w) ==
    \E handled \in BOOLEAN :
        /\ pc[w] = "alerts"
        /\ handled => is_browser_alive(browser)
        /\ pc' = [pc EXCEPT ![w] = IF handled THEN "loop" ELSE "cycle"]
        /\ came' = [came EXCEPT ![w] = IF handled THEN "alert" ELSE None]
        /\ UNCHANGED <<stop_capturing, browser, capture_thread, exit, caller, lastStop,
                       foreign, dataVars>>

\* The body of the cycle (lines 783-831): capture_all_tabs, the loop over its
\* results and time.sleep(0.5).  It runs through on a live browser, or an
\* exception takes the worker to the handler of line 833.
Cycle(w) ==
    \E ok \in BOOLEAN :
        /\ pc[w] = "cycle"
        /\ ok => is_browser_alive(browser)
        /\ pc' = [pc EXCEPT ![w] = IF ok THEN "loop" ELSE "settle"]
        /\ came' = [came EXCEPT ![w] = IF ok THEN "cycle" ELSE None]
        /\ UNCHANGED <<stop_capturing, browser, capture_thread, exit, caller, lastStop,
                       foreign, dataVars>>

\* The handler of a failed cycle (lines 833-838): after time.sleep(1) the
\* browser is tested; when it is gone the worker breaks, and nothing but
\* "Capture thread stopped" is emitted.
Settle(w) ==
    /\ pc[w] = "settle"
    /\ IF BreaksAfterError(browser)
       THEN /\ pc' = [pc EXCEPT ![w] = "done"]
            /\ exit' = [exit EXCEPT ![w] = [cause |-> "closed after error",
                                            errors |-> {},
                                            stopped |-> TRUE]]
            /\ UNCHANGED came
       ELSE /\ pc' = [pc EXCEPT ![w] = "loop"]
            /\ came' = [came EXCEPT ![w] = "error"]
            /\ UNCHANGED exit
    /\ UNCHANGED <<stop_capturing, browser, capture_thread, caller, lastStop,
                   foreign, dataVars>>

\* the next step of worker w
WorkerStep(w) ==
    \/ WorkerBegin(w)
    \/ LoopTop(w)
    \/ AlertCheck(w)
    \/ Cycle(w)
    \/ Settle(w)

NextLife ==
    \/ StartBrowser
    \/ BrowserCloses
    \/ StartCapturing
    \/ StopCapturingProcess
    \/ JoinReturns
    \/ StopBrowser
    \/ QuitBrowser
    \/ \E w \in Workers : WorkerStep(w)

SpecLife == InitLife /\ [][NextLife]_vars

\* A started worker is a thread the scheduler keeps running, and every call it
\* makes returns or raises: the wait for a dialog and the sleeps are bounded.
SpecLifeFair == SpecLife /\ \A w \in Workers : WF_vars(WorkerStep(w))

\* the workers that are inside the poll loop
InLoop == {w \in Workers : pc[w] \in {"loop", "alerts", "cycle", "settle"}}

\* C24: once the stop flag is set and stays set, a worker starts no further
\* poll cycle (from the head of the loop it can only leave), and every worker
\* eventually returns, also after a handled dialog or a failed cycle.
C24_StopTerminates ==
    /\ [][\A w \in Workers :
            (stop_capturing /\ pc[w] = "loop" /\ pc'[w] # "loop")
            => pc'[w] = "done"]_vars
    /\ <>[]stop_capturing => <>[](\A w \in Workers : ~IsAliveThread(pc[w]))

C24_Witness ==
    /\ stop_capturing
    /\ \E w \in Workers : pc[w] = "done" /\ exit[w].cause = "stop"
    /\ \E w \in Workers : pc[w] = "loop" /\ came[w] \in {"alert", "error"}

\* C31: a failed poll cycle does not end the worker: with the browser alive the
\* handler's pause takes it back to the head of the loop, from where, the stop
\* flag not being set, its next step begins another cycle.
C31_ErrorRetries ==
    /\ [][\A w \in Workers :
            (pc[w] = "settle" /\ browser = "open" /\ pc'[w] # "settle")
            => (pc'[w] = "loop" /\ came'[w] = "error")]_vars
    /\ [][\A w \in Workers :
            (pc[w] = "loop" /\ came[w] = "error" /\ ~stop_capturing
             /\ browser = "open" /\ pc'[w] # "loop")
            => pc'[w] = "alerts"]_vars

C31_Witness ==
    \E w \in Workers :
        /\ pc[w] = "loop"
        /\ came[w] = "error"
        /\ ~stop_capturing
        /\ browser = "open"

\* C25: when the bounded wait of stop_capturing_process expires with the worker
\* still running, that is reported, and the worker is not killed.
C25_ExpiredWaitReported ==
    lastStop.expired => (lastStop.reported /\ ~lastStop.killed)

\* C26: a worker that leaves the poll loop because the browser is gone has
\* emitted an error notice before it ended, at either liveness test.
C26_ClosedBrowserReported ==
    \A w \in Workers :
        exit[w].cause \in {"closed at top", "closed after error"}
        => (exit[w].errors # {} /\ exit[w].stopped)

\* C27: at most one capture worker is inside the poll loop at any time.
C27_OneWorkerInLoop == Cardinality(InLoop) <= 1

\* C28: while a capture worker is alive, the application issues no driver call:
\* start_capturing and stop_browser do not drive the browser before the worker
\* has returned.
C28_OnlyWorkerDrives == ~foreign

----------------------------------------------------------------------------
(* Window tracking and referrers: start_capturing and capture_all_tabs keep
   the set all_windows of the handles the last enumeration saw;
   capture_web_actions gives a recorded page its referrer from the is_new flag
   of its tab and from last_url.  Tabs open, navigate and close between the
   polls; handles are never handed out twice. *)

MaxTabChanges == 2   \* most navigations of open tabs in one run
MaxTabFaults == 1    \* most driver calls that raise in one run

\* URLs a tab may show
PageURLs == URLs \cup {"u2"}

\* browser.window_handles
window_handles(t) == {h \in Handles : t[h].state = "open"}

\* the window the driver is switched to: capture_all_tabs returns to it
current_handle == HandleOrder[1]

InitTabs ==
    /\ NoWriters
    /\ NoCapture
    /\ NoPage
    /\ NoMask
    /\ db = [u \in URLs |-> NoRow]
    /\ now = 1
    /\ lastCall = NoCall
    /\ pre = db

\* start_browser() (lines 91-128): the new browser has one window, its handle
\* is the tracked set, and the window shows about:blank
BrowserStarts ==
    /\ tpc = "idle"
    /\ tpc' = "browser"
    /\ tabs' = [tabs EXCEPT ![current_handle] =
                    [state |-> "open", url |-> "about:blank", content |-> "c1"]]
    /\ all_windows' = {current_handle}
    /\ UNCHANGED <<storeVars, lifeVars, locals, poll, reportedNew, firstRec,
                   startHandles, used>>

\* A page or the user opens another tab or window.
TabOpens(h) ==
    \E url \in PageURLs, content \in Contents :
        /\ tpc # "idle"
        /\ tabs[h].state = "unopened"
        /\ tabs' = [tabs EXCEPT ![h] = [state |-> "open", url |-> url,
                                        content |-> content]]
        /\ UNCHANGED <<storeVars, lifeVars, all_windows, locals, tpc, poll,
                       reportedNew, firstRec, startHandles, used>>

\* The user closes a tab other than the one the driver is switched to.
TabCloses(h) ==
    /\ h # current_handle
    /\ tabs[h].state = "open"
    /\ tabs' = [tabs EXCEPT ![h] = [state |-> "closed", url |-> None,
                                    content |-> None]]
    /\ UNCHANGED <<storeVars, lifeVars, all_windows, locals, tpc, poll,
                   reportedNew, firstRec, startHandles, used>>

\* An open tab shows another page or another content of its page.
TabNavigates(h) ==
    \E url \in PageURLs, content \in Contents :
        /\ tpc = "loop"
        /\ tabs[h].state = "open"
        /\ used.changes < MaxTabChanges
        /\ <<url, content>> # <<tabs[h].url, tabs[h].content>>
        /\ tabs' = [tabs EXCEPT ![h].url = url, ![h].content = content]
        /\ used' = [used EXCEPT !.changes = @ + 1]
        /\ UNCHANGED <<storeVars, lifeVars, all_windows, locals, tpc, poll,
                       reportedNew, firstRec, startHandles>>

\* start_capturing(target_url), lines 848-878: the tracked set becomes the
\* enumerated handles, or the empty set when browser.window_handles raises;
\* then the current window opens the target site and the worker is started.
\* A navigation that fails returns None with no worker.
StartTracking ==
    \E enumOk \in BOOLEAN, navOk \in BOOLEAN :
        /\ tpc = "browser"
        /\ used.faults + Failed(enumOk) + Failed(navOk) <= MaxTabFaults
        /\ used' = [used EXCEPT !.faults = @ + Failed(enumOk) + Failed(navOk)]
        /\ all_windows' = IF enumOk THEN window_handles(tabs) ELSE {}
        /\ startHandles' = window_handles(tabs)
        /\ tabs' = IF navOk
                   THEN [tabs EXCEPT ![current_handle].url = TARGET_WEBSITE,
                                     ![current_handle].content = "c1"]
                   ELSE tabs
        /\ tpc' = IF navOk THEN "start" ELSE "browser"
        /\ UNCHANGED <<storeVars, lifeVars, locals, poll, reportedNew, firstRec>>

\* capture_web_actions up to its loop (lines 751-770): the initial page is
\* recorded with no referrer, last_url is its URL and processed_urls holds
\* its hash.
TrackingPrologue ==
    /\ tpc = "start"
    /\ tpc' = "loop"
    /\ LET url == TARGET_WEBSITE
           html_content == tabs[current_handle].content
       IN /\ tabs' = [tabs EXCEPT ![current_handle].url = url]
          /\ locals' = [last_url |-> url,
                        processed_urls |-> DictSet(NoFingerprints, url,
                                                   hash(html_content))]
          /\ firstRec' = [firstRec EXCEPT ![current_handle] =
                             [made |-> TRUE, url |-> url, referrer |-> None,
                              last_url |-> None]]
    /\ UNCHANGED <<storeVars, lifeVars, all_windows, poll, reportedNew,
                   startHandles, used>>

\* results of capture_all_tabs (lines 659-688): one entry for every enumerated
\* tab whose capture did not raise and that does not show about:blank
TabResults(t, new_handles, fails) ==
    LET captured_handles ==
            SelectSeq(HandleOrder,
                      LAMBDA h : /\ t[h].state = "open"
                                 /\ h \notin fails
                                 /\ t[h].url # "about:blank")
    IN [i \in 1..Len(captured_handles) |->
           LET h == captured_handles[i]
           IN [url |-> t[h].url, content |-> t[h].content,
               is_new |-> h \in new_handles, handle |-> h]]

\* lines 803-810: last_url for a tab reported new, the page's own URL for a
\* known URL whose content changed, otherwise None
Referrer(tab_data, processed, last) ==
    IF tab_data.is_new THEN last
    ELSE IF tab_data.url \in DOMAIN processed THEN tab_data.url
    ELSE None

\* the loop over tabs_data (lines 787-824): a page that is new or changed is
\* recorded with its referrer and its hash is stored
RECURSIVE process_tabs(_, _, _)
process_tabs(results, loc, fr) ==
    IF results = <<>> THEN [locals |-> loc, firstRec |-> fr]
    ELSE
        LET tab_data == Head(results)
            content_hash == hash(tab_data.content)
            recorded == IsNewOrChanged(loc.processed_urls, tab_data.url, content_hash)
            referrer == Referrer(tab_data, loc.processed_urls, loc.last_url)
        IN process_tabs(
               Tail(results),
               IF recorded
               THEN [loc EXCEPT !.processed_urls = DictSet(@, tab_data.url, content_hash)]
               ELSE loc,
               IF recorded /\ ~fr[tab_data.handle].made
               THEN [fr EXCEPT ![tab_data.handle] =
                        [made |-> TRUE, url |-> tab_data.url,
                         referrer |-> referrer, last_url |-> loc.last_url]]
               ELSE fr)

\* One poll cycle (lines 785-828): capture_all_tabs enumerates the handles,
\* computes new_handles and replaces all_windows (lines 654-656), visits every
\* tab, and the loop over its results records pages; then last_url follows the
\* URL the current window had when the cycle began.  A failing enumeration
\* leaves all_windows as it was and yields no results; fails are the tabs
\* whose capture raises.
PollTabs ==
    \E enumOk \in BOOLEAN, fails \in SUBSET window_handles(tabs) :
        /\ tpc = "loop"
        /\ ~enumOk => fails = {}
        /\ used.faults + Failed(enumOk) + Cardinality(fails) <= MaxTabFaults
        /\ used' = [used EXCEPT !.faults = @ + Failed(enumOk) + Cardinality(fails)]
        /\ LET current_url == tabs[current_handle].url
               current_handles == window_handles(tabs)
               new_handles == current_handles \ all_windows
               results == IF enumOk THEN TabResults(tabs, new_handles, fails)
                          ELSE <<>>
               reported == {results[i].handle :
                               i \in {j \in 1..Len(results) : results[j].is_new}}
               r == process_tabs(results, locals, firstRec)
           IN /\ all_windows' = IF enumOk THEN current_handles ELSE all_windows
              /\ poll' = IF enumOk
                         THEN [made |-> TRUE, current |-> current_handles,
                               previous |-> all_windows, reported |-> reported,
                               tracked |-> current_handles,
                               closed |-> {h \in Handles : tabs[h].state = "closed"}]
                         ELSE poll
              /\ reportedNew' = [h \in Handles |->
                                    IF h \in reported /\ reportedNew[h] < 2
                                    THEN reportedNew[h] + 1 ELSE reportedNew[h]]
              /\ firstRec' = r.firstRec
              /\ locals' = IF current_url # r.locals.last_url
                           THEN [r.locals EXCEPT !.last_url = current_url]
                           ELSE r.locals
        /\ UNCHANGED <<storeVars, lifeVars, tabs, tpc, startHandles>>

NextTabs ==
    \/ BrowserStarts
    \/ \E h \in Handles : TabOpens(h)
    \/ \E h \in Handles : TabCloses(h)
    \/ \E h \in Handles : TabNavigates(h)
    \/ StartTracking
    \/ TrackingPrologue
    \/ PollTabs

SpecTabs == InitTabs /\ [][NextTabs]_vars

\* C32: every poll reports as new exactly the enumerated handles that were not
\* in the tracked set, and leaves the tracked set equal to the enumerated
\* handles; so no handle is reported new in two polls, no handle that was open
\* at capture start is reported new, and no closed handle stays tracked.
C32_NewIsCurrentMinusTracked ==
    /\ poll.made => /\ poll.reported = poll.current \ poll.previous
                    /\ poll.tracked = poll.current
                    /\ poll.tracked \cap poll.closed = {}
    /\ \A h \in Handles : reportedNew[h] <= 1
    /\ \A h \in startHandles : reportedNew[h] = 0

\* C33: the first page recorded from a tab that was opened after capture
\* start has last_url, as it was when the page was recorded, as its referrer.
C33_FirstRecordReferrer ==
    \A h \in Handles \ startHandles :
        firstRec[h].made => firstRec[h].referrer = firstRec[h].last_url

\* C13: when a poll cycle is over, every action its drains removed from a
\* page's queue has been handed to process_new_actions for the page's URL.
C13_DrainedIsRouted ==
    BetweenPolls => \A u \in URLs : page_action_logs[u] = drained[u]

\* the worker has processed a tab
Processed == lastTab.url # None

\* the tab processed last had a URL without stored hash, or a content whose
\* hash differs from the stored one
WasNewOrChanged ==
    \/ lastTab.url \notin DOMAIN lastTab.before
    \/ lastTab.before[lastTab.url] # hash(lastTab.content)

\* C18: as long as every sighting of a URL has shown the same content, the
\* URL was found new or changed at most once, that is at its first sighting:
\* every later poll found it unchanged and recorded nothing.
C18_IdenticalPollsUnchanged ==
    \A u \in URLs : Cardinality(obs[u]) <= 1 => verdicts[u] <= 1

C18_Witness ==
    /\ Processed /\ ~lastTab.recorded
    /\ Cardinality(obs[lastTab.url]) = 1
    /\ verdicts[lastTab.url] = 1
    /\ changes > 0

\* C19: once a tab is processed whose URL was new or whose content hash
\* differed from the stored one, the hash stored for the URL is the hash of
\* the content seen and the page was recorded; once a tab is processed whose
\* hash equals the stored one, processed_urls is as before and nothing was
\* recorded.
C19_FingerprintFollowsContent ==
    Processed =>
        IF WasNewOrChanged
        THEN /\ lastTab.url \in DOMAIN processed_urls
             /\ processed_urls[lastTab.url] = hash(lastTab.content)
             /\ lastTab.recorded
        ELSE /\ processed_urls = lastTab.before
             /\ ~lastTab.recorded

C19_Witness ==
    /\ Processed /\ lastTab.recorded
    /\ lastTab.url \in DOMAIN lastTab.before
    /\ lastTab.before[lastTab.url] # hash(lastTab.content)
    /\ processed_urls[lastTab.url] = hash(lastTab.content)

----------------------------------------------------------------------------
(* Properties of the persistence merge *)

\* the last call was a merge of a non-empty batch that returned True
Merged(c) == c.made /\ c.ret /\ Len(c.actions) > 0

LastKey == SessionKey(lastCall.session_id)

\* C1: a merge under session S leaves the entry of every other session key
\* of a session mapping exactly as it was; holding at every step, it holds after
\* any number of successive merges to S.
C1_OtherSessionsUntouched ==
    (lastCall.made /\ pre[lastCall.url].exists
        /\ pre[lastCall.url].page_actions.kind = "dict")
    => LET old == pre[lastCall.url].page_actions.map
           new == db[lastCall.url].page_actions
       IN /\ new.kind = "dict"
          /\ \A k \in (DOMAIN old) \ {LastKey} :
                k \in DOMAIN new.map /\ new.map[k] = old[k]

\* a third write has just appended to session_unknown while s1 held a list
C1_Witness ==
    /\ Merged(lastCall) /\ now >= 4
    /\ LastKey = "session_unknown"
    /\ pre[lastCall.url].page_actions.kind = "dict"
    /\ Len(ListUnder(pre[lastCall.url].page_actions, "s1")) > 0
    /\ Len(ListUnder(pre[lastCall.url].page_actions, LastKey)) > 0
    /\ ListUnder(db[lastCall.url].page_actions, LastKey)
         # ListUnder(pre[lastCall.url].page_actions, LastKey)

\* a step that is a successful call following a successful call on the same URL
\* under the same session key
SameSessionTwice ==
    /\ lastCall.made /\ lastCall.ret
    /\ lastCall'.made /\ lastCall'.ret
    /\ pre' = db
    /\ lastCall'.url = lastCall.url
    /\ SessionKey(lastCall'.session_id) = SessionKey(lastCall.session_id)

\* C4: two sequential merges of A then B under the same session on the same
\* URL leave that session's list equal to its prior content followed by A
\* followed by B.
C4_AppendOrder ==
    [][SameSessionTwice =>
        ListUnder(db'[lastCall.url].page_actions, LastKey)
          = ListUnder(pre[lastCall.url].page_actions, LastKey)
              \o lastCall.actions \o lastCall'.actions]_vars

\* the row was last written by the write just before this one, under the same
\* session, and this merge extended the list that write left
C4_Witness ==
    /\ Merged(lastCall) /\ now >= 3
    /\ lastCall.session_id = "s1"
    /\ pre[lastCall.url].exists
    /\ pre[lastCall.url].timestamp = now - 2
    /\ pre[lastCall.url].session_id = "s1"
    /\ Len(ListUnder(pre[lastCall.url].page_actions, "s1")) > 0
    /\ ListUnder(db[lastCall.url].page_actions, "s1")
         = ListUnder(pre[lastCall.url].page_actions, "s1") \o lastCall.actions
    /\ lastCall.actions # <<lastCall.actions[1]>>
         \/ lastCall.actions[1] # ListUnder(pre[lastCall.url].page_actions, "s1")[1]

\* C5: a legacy flat list L merged with a non-empty batch C under a session
\* other than the reserved key becomes {legacy_default: L, session: C}.
C5_LegacyMigration ==
    (Merged(lastCall) /\ pre[lastCall.url].exists
        /\ pre[lastCall.url].page_actions.kind = "list"
        /\ LastKey # "legacy_default")
    => db[lastCall.url].page_actions
         = PADict(("legacy_default" :> ListVal(pre[lastCall.url].page_actions.items))
                    @@ (LastKey :> ListVal(lastCall.actions)))

C5_Witness ==
    /\ Merged(lastCall) /\ lastCall.session_id = "s1"
    /\ pre[lastCall.url].page_actions = PAList(<<"a", "b">>)
    /\ lastCall.actions = <<"b">>
    /\ DOMAIN db[lastCall.url].page_actions.map = {"legacy_default", "s1"}

\* C6: migrating a legacy flat list keeps its entries in the store, whatever
\* session identifier the merge is given.
C6_LegacyNeverDropped ==
    (Merged(lastCall) /\ pre[lastCall.url].exists
        /\ pre[lastCall.url].page_actions.kind = "list")
    => IsPrefix(pre[lastCall.url].page_actions.items,
                ListUnder(db[lastCall.url].page_actions, "legacy_default"))

\* a step that is a successful call following a successful call on the same URL
\* under a different session key
DistinctSessions ==
    /\ lastCall.made /\ lastCall.ret
    /\ lastCall'.made /\ lastCall'.ret
    /\ pre' = db
    /\ lastCall'.url = lastCall.url
    /\ SessionKey(lastCall'.session_id) # SessionKey(lastCall.session_id)

\* the action store of url after merging call c2 and then call c1 into table d
MergedInOrder(d, c2, c1) ==
    LET d1 == update_page_actions(d, c2.url, c2.actions, c2.session_id, 0, TRUE).db
        d2 == update_page_actions(d1, c1.url, c1.actions, c1.session_id, 0, TRUE).db
    IN d2[c1.url].page_actions

\* C8: merging under S1 and then under a distinct S2 gives the same
\* per-session mapping as merging in the opposite order.
C8_MergeCommutes ==
    [][DistinctSessions =>
        db'[lastCall.url].page_actions = MergedInOrder(pre, lastCall', lastCall)]_vars

\* C9: a call with an empty batch leaves every row as it was (action store,
\* timestamp and session column included).
C9_EmptyBatchNoWrite ==
    (lastCall.made /\ Len(lastCall.actions) = 0) => db = pre

\* an empty batch was offered, under a session other than the one in the
\* row's session column, for a row that holds a session mapping
C9_Witness ==
    /\ lastCall.made /\ lastCall.ret /\ Len(lastCall.actions) = 0
    /\ lastCall.session_id = "legacy_default"
    /\ db[lastCall.url].exists
    /\ db[lastCall.url].session_id = "s1"
    /\ db[lastCall.url].timestamp < now
    /\ Len(ListUnder(db[lastCall.url].page_actions, "s1")) > 0

\* C10: with no row, or a row whose action store is NULL, a merge of a
\* non-empty batch leaves exactly {session key: batch}.
C10_FreshStore ==
    (Merged(lastCall)
        /\ (~pre[lastCall.url].exists \/ pre[lastCall.url].page_actions.kind = "null"))
    => /\ db[lastCall.url].exists
       /\ db[lastCall.url].page_actions = PADict(LastKey :> ListVal(lastCall.actions))

\* a row was inserted for a URL that had none
C10_Witness ==
    /\ Merged(lastCall) /\ lastCall.session_id = "s1"
    /\ ~pre[lastCall.url].exists
    /\ db[lastCall.url].exists
    /\ lastCall.actions = <<"a", "b">>

\* the keys an action store holds recorded data under; a legacy flat list is
\* what update_page_actions itself keeps under the reserved key
RecordedKeys(pa) ==
    IF pa.kind = "dict" THEN DOMAIN pa.map
    ELSE IF pa.kind = "list" THEN {"legacy_default"}
    ELSE {}

\* what an action store holds under key k
RecordedUnder(pa, k) ==
    IF pa.kind = "list" THEN ListVal(pa.items) ELSE pa.map[k]

\* C34: a merge loses nothing that was recorded: no key of the store goes
\* away, the list under every key that was there is a prefix of the list under
\* it afterwards, and a value under a key that was not a list is still there.
C34_NothingLost ==
    Merged(lastCall)
    => LET before == pre[lastCall.url].page_actions
           after == db[lastCall.url].page_actions
       IN /\ RecordedKeys(before) \subseteq RecordedKeys(after)
          /\ \A k \in RecordedKeys(before) :
                IF RecordedUnder(before, k).kind = "list"
                THEN /\ RecordedUnder(after, k).kind = "list"
                     /\ IsPrefix(RecordedUnder(before, k).items,
                                 RecordedUnder(after, k).items)
                ELSE RecordedUnder(after, k) = RecordedUnder(before, k)

----------------------------------------------------------------------------
(* Properties of the injected page script *)

\* the last host call was a drain whose script ran in the page
Drained == hostRet.op = "drain" /\ hostRet.ran

\* C11: a drain that follows a drain of the same page load, with no event
\* captured in between, returns the empty batch; a drain of an empty queue
\* returns the empty batch and leaves the page as it was.
C11_SecondDrainEmpty ==
    /\ (Drained /\ hostRet.prevOp = "drain") => hostRet.batch = <<>>
    /\ (Drained /\ hostRet.before.queue = <<>>)
          => hostRet.batch = <<>> /\ hostRet.after = hostRet.before

C11_Witness ==
    /\ Drained
    /\ hostRet.prevOp = "drain"
    /\ Len(returned[hostRet.h]) > 0
    /\ hostRet.batch = <<>>

C16_InstallIdempotent ==
    /\ (hostRet.op = "install" /\ hostRet.ran /\ hostRet.before.installed)
          => hostRet.result = "already" /\ hostRet.after = hostRet.before
    /\ \A h \in Handles :
          /\ win[h].listeners <= 1
          /\ Len(captured[h]) = evSeen[h]

C16_Witness ==
    /\ hostRet.op = "install" /\ hostRet.ran /\ hostRet.before.installed
    /\ Len(hostRet.before.queue) > 0
    /\ evSeen[hostRet.h] >= 2
    /\ lastOp[hostRet.h] = "event"

\* C17: within one page load the captured actions are numbered 1, 2, 3, ...
\* in capture order, across drains and repeated installations: every action
\* still queued has a larger number than every action already drained.
C17_SequenceNumbers ==
    \A h \in Handles :
        /\ \A i \in 1..Len(captured[h]) : captured[h][i].action_id = i
        /\ \A i \in 1..Len(returned[h]) : \A j \in 1..Len(win[h].queue) :
              returned[h][i].action_id < win[h].queue[j].action_id

C17_Witness ==
    \E h \in Handles :
        /\ Len(returned[h]) >= 1
        /\ Len(win[h].queue) >= 1
        /\ hostRet.op = "install" /\ hostRet.h = h /\ hostRet.result = "already"
        /\ hostRet.prevOp = "drain"

----------------------------------------------------------------------------
(* Properties of the payload *)

\* the field is one the masking rule names: declared type password, or a
\* name containing a sensitivity keyword
DeclaredSensitive(e) ==
    \/ LowerName(e.type) = "password"
    \/ \E k \in needles : includes(toLowerCase(e.name), k)

\* the same control holding value v
WithValue(e, v) ==
    [e EXCEPT !.value = v,
              !.optionText = IF e.tagName = "SELECT" THEN OptionText(v) ELSE ""]

\* C14: the payload of an input, change or click action on a sensitive field
\* does not depend on the field's value: the same event on the same field
\* holding any other value builds the same payload.
C14_PayloadHidesValue ==
    (payload # NoPayload /\ evType \in {"input", "change", "click"}
       /\ DeclaredSensitive(el))
    => \A v \in Values : dataObj(evType, WithValue(el, v), formEls) = payload

\* C15: in the field list of a submit action every sensitive control has the
\* mask token as its value.
C15_SubmitFieldsMasked ==
    (payload # NoPayload /\ evType = "submit")
    => \A i \in DOMAIN formEls :
          DeclaredSensitive(formEls[i]) => payload.fields[i].value = MaskToken

====
